---- MODULE Spec2Model ----
(***************************************************************************)
(* Free_US_Investment_Agent_System: the data access layer of               *)
(* src/tools/api.py (cache-first fetches under retry_with_backoff, alone  *)
(* and called from two threads), the run of the workflow registered in    *)
(* src/main.py and the scorers of src/agents/sentiment.py.                 *)
(*                                                                         *)
(* Payloads are abstract JSON values: a tag ("none" for Python None,       *)
(* "list", "dict") and the sequence of the records they hold.              *)
(***************************************************************************)
EXTENDS Integers, Sequences, FiniteSets, TLC

VARIABLES
    cache,      \* the cache directory: (cache_type, ticker) -> payload
    call,       \* the call of a decorated fetch that is in progress
    run,        \* the call of run_hedge_fund
    given,      \* the node functions that are given ones (not run from src)
    record,     \* the shared record (AgentState) of the workflow
    lastRan,    \* the nodes whose writes the previous step applied
    active,     \* the nodes of the step in progress
    snapshot,   \* node -> the record it was handed when it started
    writes,     \* node -> what it returned in the step in progress
    completed,  \* the nodes of the step that are over, in completion order
    merged,     \* the nodes whose output has been merged into the record
    execCount,  \* node -> how many times it has been started
    agent,      \* progress of the node that is fetching
    threads,    \* the fetches that concurrent callers have in progress
    scorer,     \* the call of a composite signal scorer: input and result
    chat,       \* the call of get_chat_completion in progress
    web,        \* current_trading_state of the web API and its latest answer
    batch       \* the call of process_tickers_from_file

dalVars == <<cache, call>>

appVars == <<web, batch>>

otherVars == <<threads, scorer, chat, appVars>>

runVars == <<run, given, record, lastRan, active, snapshot, writes,
             completed, merged, execCount, agent, otherVars>>

vars == <<cache, call, run, given, record, lastRan, active, snapshot, writes,
          completed, merged, execCount, agent, threads, scorer, chat, web, batch>>

-----------------------------------------------------------------------------
(* tools/api.py : cache                                                    *)

CACHE_DIRS == {"financial_metrics", "financial_statements", "insider_trades",
               "market_data", "options_data", "price_history"}

Tickers == {"AAPL"}

\* the subjects the cache directory has files for
Subjects == {"AAPL", "MSFT"}

None == [tag |-> "none", items |-> <<>>]

List(s) == [tag |-> "list", items |-> s]

Dict(s) == [tag |-> "dict", items |-> s]

\* Python truth value of a JSON payload: None, [] and {} are false.
Truthy(p) == p.tag # "none" /\ p.items # <<>>

\* a file that open(.., 'w') has emptied and nothing has been flushed to
Truncated == [tag |-> "truncated", items |-> <<>>]

\* a file holding the bytes of two writers: not a JSON document
Torn == [tag |-> "torn", items |-> <<>>]

\* read_cache: the content of the file, None when the file does not exist
\* and None when json.load raises (lines 63-65).
read_cache(c, cache_type, ticker) ==
    IF c[<<cache_type, ticker>>].tag \in {"truncated", "torn"} THEN None
    ELSE c[<<cache_type, ticker>>]

\* write_cache with one file per ticker for all the kinds
write_cache_file_per_ticker(c, cache_type, ticker, data) ==
    [k \in DOMAIN c |-> IF k[2] = ticker THEN data ELSE c[k]]

write_cache(c, cache_type, ticker, data) ==
    [c EXCEPT ![<<cache_type, ticker>>] = data]

-----------------------------------------------------------------------------
(* tools/api.py : the bodies of the six fetches.  A body takes the cache   *)
(* entry of its key and what the provider does on this attempt, and yields *)
(* whether it raised, the value it returned, whether it wrote the value to *)
(* the cache and how many provider calls it made.                          *)

Raise(n) == [raised |-> TRUE, value |-> None, write |-> FALSE, calls |-> n]

Return(v, n) == [raised |-> FALSE, value |-> v, write |-> FALSE, calls |-> n]

ReturnAndCache(v, n) == [raised |-> FALSE, value |-> v, write |-> TRUE, calls |-> n]

MetricsDefault == List(<<"metrics_zero">>)

\* "error": stock.info / stock.financials raise; "value_error": they raise
\* ValueError or JSONDecodeError; "empty": financials.empty; "one"/"two":
\* that many periods.  With periods present line 102 evaluates
\* datetime.now() on the module datetime (line 4: import datetime), which
\* raises AttributeError, re-raised by the handler of line 174.
MetricsOutcomes == {"error", "value_error", "empty", "one", "two"}

get_financial_metrics(entry, o) ==
    IF Truthy(entry) THEN Return(entry, 0)
    ELSE IF o \in {"value_error", "empty"} THEN Return(MetricsDefault, 1)
    ELSE Raise(1)

StatementsDefault == List(<<"default_item", "default_item">>)

\* the periods the provider has, most recent first
StatementsOutcomes == {"error", "zero", "one", "two", "three"}

Periods(o) ==
    CASE o = "zero" -> <<>>
      [] o = "one" -> <<"period_1">>
      [] o = "two" -> <<"period_1", "period_2">>
      [] OTHER -> <<"period_1", "period_2", "period_3">>

Min(a, b) == IF a < b THEN a ELSE b

\* get_financial_statements padding a single period with the default item
get_financial_statements_pad_default(entry, o) ==
    IF Truthy(entry) THEN Return(entry, 0)
    ELSE IF o = "error" THEN Return(StatementsDefault, 1)
    ELSE LET cols == Periods(o)
             line_items == SubSeq(cols, 1, Min(2, Len(cols)))
             padded == IF Len(line_items) = 1
                       THEN Append(line_items, "default_item")
                       ELSE line_items
         IN ReturnAndCache(List(padded), 1)

get_financial_statements(entry, o) ==
    IF Truthy(entry) THEN Return(entry, 0)
    ELSE IF o = "error" THEN Return(StatementsDefault, 1)
    ELSE LET cols == Periods(o)
             line_items == SubSeq(cols, 1, Min(2, Len(cols)))
             padded == IF Len(line_items) = 1
                       THEN Append(line_items, line_items[1])
                       ELSE line_items
         IN ReturnAndCache(List(padded), 1)

\* "none": insider_trades is None or empty; "trades": two rows, older first
InsiderOutcomes == {"error", "none", "trades"}

get_insider_trades(entry, o) ==
    IF Truthy(entry) THEN Return(entry, 0)
    ELSE IF o = "trades"
         THEN ReturnAndCache(List(<<"trade_newer", "trade_older">>), 1)
         ELSE Return(List(<<>>), 1)

\* "error": stock.info raises (outside any try); the other outcomes say
\* which of the ^VIX and ^TNX lookups fail and are defaulted to 0.  The
\* three lookups are made whatever the two auxiliary ones answer.
MarketOutcomes == {"error", "ok", "vix_fails", "tnx_fails", "both_fail"}

MarketRecord(o) ==
    CASE o = "ok" -> Dict(<<"market", "vix", "tnx">>)
      [] o = "vix_fails" -> Dict(<<"market", "vix_0", "tnx">>)
      [] o = "tnx_fails" -> Dict(<<"market", "vix", "tnx_0">>)
      [] OTHER -> Dict(<<"market", "vix_0", "tnx_0">>)

get_market_data(entry, o) ==
    IF Truthy(entry) THEN Return(entry, 0)
    ELSE IF o = "error" THEN Raise(1)
    ELSE ReturnAndCache(MarketRecord(o), 3)

\* "none": stock.options is empty
OptionsOutcomes == {"error", "none", "chain"}

OptionsDefault == Dict(<<"options_zero", "expiration_null">>)

get_options_data(entry, o) ==
    IF Truthy(entry) THEN Return(entry, 0)
    ELSE CASE o = "error" -> Return(OptionsDefault, 1)
           [] o = "none" -> Return(Dict(<<"error">>), 1)
           [] OTHER -> ReturnAndCache(Dict(<<"options", "expiration">>), 1)

\* Lines 374-382 evaluate datetime.now() or datetime.strptime() on the
\* module datetime before the cache is read: AttributeError on every call.
PriceOutcomes == {"error", "empty", "rows"}

get_price_history(entry, o) == Raise(0)

Outcomes(kind) ==
    CASE kind = "financial_metrics" -> MetricsOutcomes
      [] kind = "financial_statements" -> StatementsOutcomes
      [] kind = "insider_trades" -> InsiderOutcomes
      [] kind = "market_data" -> MarketOutcomes
      [] kind = "options_data" -> OptionsOutcomes
      [] OTHER -> PriceOutcomes

Body(kind, entry, o) ==
    CASE kind = "financial_metrics" -> get_financial_metrics(entry, o)
      [] kind = "financial_statements" -> get_financial_statements(entry, o)
      [] kind = "insider_trades" -> get_insider_trades(entry, o)
      [] kind = "market_data" -> get_market_data(entry, o)
      [] kind = "options_data" -> get_options_data(entry, o)
      [] OTHER -> get_price_history(entry, o)

-----------------------------------------------------------------------------
(* tools/api.py : retry_with_backoff(retries=3, backoff_in_seconds=1)      *)

retries == 3

backoff_in_seconds == 1

RECURSIVE Pow2(_)
Pow2(n) == IF n = 0 THEN 1 ELSE 2 * Pow2(n - 1)

Idle ==
    [state |-> "idle", caller |-> "none", kind |-> "none", ticker |-> "none",
     x |-> 0, attempts |-> 0, errors |-> 0, last |-> "none", calls |-> 0,
     sleeps |-> 0, wait |-> 0, exc |-> 0,
     value |-> None, entry0 |-> None, wrote |-> FALSE]

\* The call of a decorated fetch: wrapper starts with x = 0.  attempts
\* counts the executions of the body, errors those on which the provider
\* failed, last is what the provider did on the latest one, calls counts
\* the provider calls, sleeps counts the calls of time.sleep and wait is
\* the delay of the latest one, in tenths of a second.  An exception is
\* named by the number of the attempt that raised it; exc is the one that
\* left the call (0: none).
Invoke(caller, kind, ticker) ==
    [Idle EXCEPT !.state = "active", !.caller = caller, !.kind = kind,
                 !.ticker = ticker,
                 !.entry0 = read_cache(cache, kind, ticker)]

\* random.uniform(0, 1) in tenths of a second: the two ends of the interval
Jitter == {0, 10}

\* a delay growing by backoff_in_seconds with each retry
wait_linear(x, jitter) == 10 * backoff_in_seconds * (x + 1) + jitter

\* lines 43-44, in tenths of a second
wait(x, jitter) == 10 * backoff_in_seconds * Pow2(x) + jitter

\* raising the exception of the first attempt
raise_first(attempt) == 1

\* line 42: raise e, e being bound by the except clause of this attempt
raise_e(attempt) == attempt

\* the except clause giving up one exception later
GiveUpLate(x) == x = retries + 1

\* the decision of the except clause of wrapper (lines 40-46)
GiveUp(x) == x = retries

\* One iteration of the loop of wrapper: the body runs once; a return ends
\* the call; an exception ends it when x == retries and otherwise sleeps
\* wait and increments x.
wrapper ==
    /\ call.state = "active"
    /\ \E o \in Outcomes(call.kind), jitter \in Jitter :
         LET r == Body(call.kind, read_cache(cache, call.kind, call.ticker), o)
             c1 == [call EXCEPT !.attempts = @ + 1,
                                !.errors = IF o = "error" THEN @ + 1 ELSE @,
                                !.last = o,
                                !.calls = @ + r.calls]
         IN IF ~r.raised
            THEN /\ call' = [c1 EXCEPT !.state = "returned", !.value = r.value,
                                       !.wrote = r.write]
                 /\ cache' = IF r.write
                             THEN write_cache(cache, call.kind, call.ticker, r.value)
                             ELSE cache
            ELSE /\ call' = IF GiveUp(call.x)
                            THEN [c1 EXCEPT !.state = "raised",
                                            !.exc = raise_e(c1.attempts)]
                            ELSE [c1 EXCEPT !.x = @ + 1,
                                            !.sleeps = @ + 1,
                                            !.wait = wait(call.x, jitter)]
                 /\ cache' = cache
    /\ UNCHANGED runVars

-----------------------------------------------------------------------------
(* tools/api.py : fetches called from several threads.  write_cache opens  *)
(* the file with mode 'w', which empties it, and the text is flushed when  *)
(* the with block closes the file: two steps, with no lock.  Each writer   *)
(* writes from offset 0 of its own file object.                            *)

Callers == {1, 2}

ThreadIdle ==
    [pc |-> "idle", kind |-> "none", ticker |-> "none", x |-> 0,
     value |-> None, sawInvalid |-> FALSE, closed |-> 0]

\* the length of the text json.dump produces: a field defaulted to 0 is
\* shorter than the number the provider gives
ItemSize(i) == IF i \in {"vix_0", "tnx_0"} THEN 1 ELSE 2

RECURSIVE SeqSize(_)
SeqSize(items) ==
    IF items = <<>> THEN 0 ELSE ItemSize(Head(items)) + SeqSize(Tail(items))

Size(p) == SeqSize(p.items)

\* the file after a writer flushes its text over what the file holds: the
\* text itself, unless the file holds a longer text, whose tail remains
Overlay(old, new) ==
    IF old.tag \in {"none", "truncated"} THEN new
    ELSE IF old.tag = "torn" THEN Torn
    ELSE IF old = new \/ Size(new) >= Size(old) THEN new
    ELSE Torn

\* get_price_history raises before it reads the cache (lines 374-382)
RaisesBeforeRead(kind) == kind = "price_history"

\* the except clause of wrapper, for the thread t
ThreadExcept(t) ==
    IF GiveUp(threads[t].x)
    THEN [threads EXCEPT ![t].pc = "raised"]
    ELSE [threads EXCEPT ![t].x = @ + 1, ![t].pc = "read"]

\* a thread calls a decorated fetch
ThreadCall ==
    /\ \E t \in Callers, kind \in CACHE_DIRS, ticker \in Subjects :
         /\ threads[t].pc = "idle"
         /\ threads' = [threads EXCEPT ![t].pc = "read", ![t].kind = kind,
                                       ![t].ticker = ticker]
    /\ UNCHANGED <<dalVars, run, given, record, lastRan, active, snapshot,
                   writes, completed, merged, execCount, agent, scorer, chat,
                   appVars>>

\* the body begins: read_cache and the test of cached_data
ThreadRead ==
    /\ \E t \in Callers :
         LET th == threads[t]
             entry == read_cache(cache, th.kind, th.ticker)
         IN /\ th.pc = "read"
            /\ threads' =
                 IF RaisesBeforeRead(th.kind) THEN ThreadExcept(t)
                 ELSE IF Truthy(entry)
                      THEN [threads EXCEPT ![t].pc = "returned", ![t].value = entry]
                 ELSE [threads EXCEPT ![t].pc = "provider",
                          ![t].sawInvalid =
                              @ \/ cache[<<th.kind, th.ticker>>].tag
                                      \in {"truncated", "torn"}]
    /\ UNCHANGED <<dalVars, run, given, record, lastRan, active, snapshot,
                   writes, completed, merged, execCount, agent, scorer, chat,
                   appVars>>

\* the provider answers and the body normalises the answer
ThreadProvider ==
    /\ \E t \in Callers :
         /\ threads[t].pc = "provider"
         /\ \E o \in Outcomes(threads[t].kind) :
              LET r == Body(threads[t].kind, None, o)
              IN threads' =
                   IF r.raised THEN ThreadExcept(t)
                   ELSE IF r.write
                        THEN [threads EXCEPT ![t].pc = "open", ![t].value = r.value]
                   ELSE [threads EXCEPT ![t].pc = "returned", ![t].value = r.value]
    /\ UNCHANGED <<dalVars, run, given, record, lastRan, active, snapshot,
                   writes, completed, merged, execCount, agent, scorer, chat,
                   appVars>>

\* write_cache line 78: open(cache_file, 'w') empties the file
ThreadOpen ==
    /\ \E t \in Callers :
         /\ threads[t].pc = "open"
         /\ cache' = write_cache(cache, threads[t].kind, threads[t].ticker,
                                 Truncated)
         /\ threads' = [threads EXCEPT ![t].pc = "dump"]
    /\ UNCHANGED <<call, run, given, record, lastRan, active, snapshot,
                   writes, completed, merged, execCount, agent, scorer, chat,
                   appVars>>

\* write_cache lines 78-79: the text is flushed as the file is closed, and
\* the body returns the value
ThreadClose ==
    /\ \E t \in Callers :
         LET th == threads[t]
             others == {u \in Callers : threads[u].closed > 0}
         IN /\ th.pc = "dump"
            /\ cache' = write_cache(cache, th.kind, th.ticker,
                            Overlay(cache[<<th.kind, th.ticker>>], th.value))
            /\ threads' = [threads EXCEPT ![t].pc = "returned",
                                          ![t].closed = Cardinality(others) + 1]
    /\ UNCHANGED <<call, run, given, record, lastRan, active, snapshot,
                   writes, completed, merged, execCount, agent, scorer, chat,
                   appVars>>

-----------------------------------------------------------------------------
(* main.py : validation of the inputs of run_hedge_fund                    *)

\* The day the process runs on; date strings are a day number, or malformed.
Today == 400

Date(d) == [ok |-> TRUE, day |-> d]

Malformed == [ok |-> FALSE, day |-> 0]

DateStrings ==
    {Malformed} \cup {Date(Today + d) : d \in {0 - 400, 0 - 365, 0, 1}}

MaxRange == 365

MinNews == 1

MaxNews == 100

\* validate_dates without the check of the length of the range
validate_dates_any_range(start_date, end_date) ==
    IF ~start_date.ok \/ ~end_date.ok THEN "Dates must be in YYYY-MM-DD format"
    ELSE IF start_date.day > end_date.day THEN "Start date cannot be after end date"
    ELSE IF end_date.day > Today THEN "End date cannot be in the future"
    ELSE "ok"

\* validate_dates: "ok" or the ValueError it raises
validate_dates(start_date, end_date) ==
    IF ~start_date.ok \/ ~end_date.ok THEN "Dates must be in YYYY-MM-DD format"
    ELSE IF start_date.day > end_date.day THEN "Start date cannot be after end date"
    ELSE IF end_date.day > Today THEN "End date cannot be in the future"
    ELSE IF end_date.day - start_date.day > MaxRange THEN "Date range cannot exceed 1 year"
    ELSE "ok"

\* validate_ticker: the normalised ticker, "" standing for the ValueError
upper(t) == IF t = "aapl" THEN "AAPL" ELSE t

validate_ticker(ticker) == IF ticker = "" THEN "" ELSE upper(ticker)

\* validate_portfolio: a portfolio is abstracted to whether it is well formed
validate_portfolio(portfolio) ==
    IF portfolio = "cash_and_stock" THEN "ok"
    ELSE "Portfolio must contain all required keys"

Configs ==
    [ticker : {"aapl", ""}, start_date : DateStrings, end_date : DateStrings,
     portfolio : {"cash_and_stock", "no_cash"}, num_of_news : {0, 5, 101}]

\* lines 98-104: the checks in the order the code makes them
Validate(cfg) ==
    IF validate_ticker(cfg.ticker) = "" THEN "Ticker must be a non-empty string"
    ELSE IF validate_dates(cfg.start_date, cfg.end_date) # "ok"
         THEN validate_dates(cfg.start_date, cfg.end_date)
    ELSE IF validate_portfolio(cfg.portfolio) # "ok"
         THEN validate_portfolio(cfg.portfolio)
    ELSE IF ~(MinNews <= cfg.num_of_news /\ cfg.num_of_news <= MaxNews)
         THEN "Number of news articles must be between 1 and 100"
    ELSE "ok"

-----------------------------------------------------------------------------
(* main.py : the workflow                                                  *)

\* add_node, in the order of lines 153-159
NodeOrder ==
    <<"market_data_agent", "technical_analyst_agent", "fundamentals_agent",
      "sentiment_agent", "risk_management_agent", "portfolio_management_agent",
      "valuation_agent">>

Nodes == {NodeOrder[i] : i \in 1..Len(NodeOrder)}

\* the edges with one more, from the entry node to the risk manager
EdgesWithShortcut ==
    {<<"START", "market_data_agent">>,
     <<"market_data_agent", "technical_analyst_agent">>,
     <<"market_data_agent", "fundamentals_agent">>,
     <<"market_data_agent", "sentiment_agent">>,
     <<"market_data_agent", "valuation_agent">>,
     <<"market_data_agent", "risk_management_agent">>,
     <<"technical_analyst_agent", "risk_management_agent">>,
     <<"fundamentals_agent", "risk_management_agent">>,
     <<"sentiment_agent", "risk_management_agent">>,
     <<"valuation_agent", "risk_management_agent">>,
     <<"risk_management_agent", "portfolio_management_agent">>,
     <<"portfolio_management_agent", "END">>}

\* the edges without the one from sentiment_agent to the risk manager
EdgesWithoutSentimentJoin ==
    {<<"START", "market_data_agent">>,
     <<"market_data_agent", "technical_analyst_agent">>,
     <<"market_data_agent", "fundamentals_agent">>,
     <<"market_data_agent", "sentiment_agent">>,
     <<"market_data_agent", "valuation_agent">>,
     <<"technical_analyst_agent", "risk_management_agent">>,
     <<"fundamentals_agent", "risk_management_agent">>,
     <<"valuation_agent", "risk_management_agent">>,
     <<"risk_management_agent", "portfolio_management_agent">>,
     <<"portfolio_management_agent", "END">>}

\* set_entry_point and add_edge, lines 162-172
Edges ==
    {<<"START", "market_data_agent">>,
     <<"market_data_agent", "technical_analyst_agent">>,
     <<"market_data_agent", "fundamentals_agent">>,
     <<"market_data_agent", "sentiment_agent">>,
     <<"market_data_agent", "valuation_agent">>,
     <<"technical_analyst_agent", "risk_management_agent">>,
     <<"fundamentals_agent", "risk_management_agent">>,
     <<"sentiment_agent", "risk_management_agent">>,
     <<"valuation_agent", "risk_management_agent">>,
     <<"risk_management_agent", "portfolio_management_agent">>,
     <<"portfolio_management_agent", "END">>}

Pred(n) == {p \in Nodes : <<p, n>> \in Edges}

Succ(n) == {m \in Nodes : <<n, m>> \in Edges}

\* A node is scheduled for the next step when a node that has an edge to it
\* wrote in the step that just ended.
Triggered(ran) == {n \in Nodes : \E p \in ran : <<p, n>> \in Edges}

HumanMessage(name, content) == [name |-> name, content |-> content]

\* the content of a message: who wrote it and how the text is laid out
Content(by, form) == [by |-> by, form |-> form]

Prompt == HumanMessage("user", Content("user", "text"))

\* lines 107-123
workflow_input(cfg) ==
    [messages |-> <<Prompt>>,
     data |-> [k \in {"ticker", "portfolio", "start_date", "end_date", "num_of_news"} |->
                 CASE k = "ticker" -> validate_ticker(cfg.ticker)
                   [] k = "portfolio" -> cfg.portfolio
                   [] k = "start_date" -> cfg.start_date
                   [] k = "end_date" -> cfg.end_date
                   [] OTHER -> cfg.num_of_news]]

NoRecord == [messages |-> <<>>, data |-> <<>>]

\* lines 129-137: a result that parses as JSON is serialised again with
\* indent=2; any other string is returned as it is.
FormatResult(content) ==
    IF content.form \in {"json_compact", "json_indented"}
    THEN [content EXCEPT !.form = "json_indented"]
    ELSE content

\* line 129: final_state["messages"][-1].content
final_result_first(messages) == messages[1].content

final_result(messages) == messages[Len(messages)].content

\* the JSON value (or the text) a content stands for, whatever its layout
Parsed(content) ==
    [by |-> content.by,
     json |-> content.form \in {"json_compact", "json_indented"}]

-----------------------------------------------------------------------------
(* main.py : run_hedge_fund and app.invoke                                 *)

\* merge_dicts of AgentState: the keys of b replace those of a
merge_dicts(a, b) == b @@ a

\* the reducers of AgentState: messages are added, data and metadata merged
Reduce(rec, w) ==
    [messages |-> rec.messages \o w.messages,
     data |-> merge_dicts(rec.data, w.data)]

\* the writes of a step applied in the order the nodes completed
CompletionOrder(step, done) == done

\* the writes of a step are applied node by node in registration order
MergeOrder(step, done) == SelectSeq(NodeOrder, LAMBDA n : n \in step)

RECURSIVE ApplyWrites(_, _, _)
ApplyWrites(rec, order, w) ==
    IF order = <<>> THEN rec
    ELSE ApplyWrites(Reduce(rec, w[Head(order)]), Tail(order), w)

\* The given node functions are deterministic: the layout of the content
\* they produce, the nodes that write the key "verdict" and the node that
\* raises (at most one) are fixed.
Forms == {"json_compact", "json_indented", "text"}

NotInSrc ==
    {"technical_analyst_agent", "fundamentals_agent", "valuation_agent",
     "risk_management_agent", "portfolio_management_agent"}

NoGiven == [nodes |-> {}, form |-> "text", writers |-> {}, raises |-> {}]

GivenFunctions(nodes) ==
    [nodes : {nodes}, form : Forms,
     writers : SUBSET {"technical_analyst_agent", "fundamentals_agent",
                       "valuation_agent"},
     raises : {{}} \cup {{n} : n \in nodes}]

\* market_data.py lines 158-172: the messages it was handed and the data
\* with the fetched values added
MarketCap(market_data) ==
    IF market_data.items # <<>> /\ market_data.items[1] = "market"
    THEN "market_cap" ELSE "0"

\* the later of two dates
later(a, b) == IF b.day > a.day THEN b ELSE a

\* market_data.py line 24: min(original_start_date, min_start_date) of two
\* dates written YYYY-MM-DD
earlier(a, b) == IF b.day < a.day THEN b ELSE a

MarketDataReturn(state, f) ==
    LET current_date == state.data["end_date"]
        min_start_date == Date(current_date.day - MaxRange)
        original_start_date == state.data["start_date"]
        start_date == earlier(original_start_date, min_start_date)
    IN [status |-> "returned",
        messages |-> state.messages,
        data |-> merge_dicts(state.data,
                [k \in {"prices", "start_date", "end_date", "current_date",
                        "financial_metrics", "financial_line_items",
                        "insider_trades", "market_cap", "market_data"} |->
                   CASE k = "prices" -> f[1]
                     [] k = "start_date" -> start_date
                     [] k = "end_date" -> current_date
                     [] k = "current_date" -> current_date
                     [] k = "financial_metrics" -> f[2]
                     [] k = "financial_line_items" -> f[3]
                     [] k = "insider_trades" -> f[4]
                     [] k = "market_cap" -> MarketCap(f[5])
                     [] OTHER -> f[5]])]

\* sentiment.py lines 202-211: its message and the data it was handed
SentimentReturn(state, form) ==
    [status |-> "returned",
     messages |-> <<HumanMessage("sentiment_agent", Content("sentiment_agent", form))>>,
     data |-> state.data]

\* a node that is not in src: one message of its own and its data
GivenReturn(n, state, g) ==
    [status |-> "returned",
     messages |-> <<HumanMessage(n, Content(n, g.form))>>,
     data |-> IF n \in g.writers THEN "verdict" :> n ELSE <<>>]

Raised == [status |-> "raised", messages |-> <<>>, data |-> <<>>]

NoConfig ==
    [ticker |-> "", start_date |-> Malformed, end_date |-> Malformed,
     portfolio |-> "no_cash", num_of_news |-> 0]

NoRun == [state |-> "none", config |-> NoConfig, error |-> "none",
          result |-> Content("none", "text")]

NoWrite == [status |-> "running", messages |-> <<>>, data |-> <<>>]

NoAgent == [pc |-> 0, fetched |-> <<>>]

\* no concurrent caller, no scorer called
NoThreads == <<>>

NoScorer == [fn |-> "none", input |-> <<>>, result |-> <<>>]

\* get_chat_completion has not been called.  pc is the position of the
\* call, args its arguments, attempt the variable of the for loop, entries
\* the number of times the decorator has entered the body, requests the
\* number of requests.post, sleeps the delays of time.sleep, outcomes what
\* the requests did and result the value returned.
NoChat ==
    [pc |-> "idle", args |-> [max_retries |-> 0, initial_retry_delay |-> 0],
     attempt |-> 0, entries |-> 0, requests |-> 0,
     sleeps |-> <<>>, outcomes |-> <<>>, result |-> "unset"]

InitWorkflow ==
    /\ run = NoRun
    /\ record = NoRecord
    /\ lastRan = {}
    /\ active = {}
    /\ snapshot = [n \in Nodes |-> NoRecord]
    /\ writes = [n \in Nodes |-> NoWrite]
    /\ completed = <<>>
    /\ merged = {}
    /\ execCount = [n \in Nodes |-> 0]
    /\ agent = NoAgent

\* web/api.py lines 72-79, None being 0 for last_update; now counts the
\* requests answered and stands for datetime.now(), answer is the latest
\* answer and successes counts the start-trading requests answered with
\* success
NoWeb ==
    [current_trading_state |->
        [is_trading |-> FALSE, portfolio |-> "None", last_update |-> 0,
         agent_data |-> "[]", portfolio_history |-> <<>>],
     now |-> 0,
     answer |-> [endpoint |-> "none", status |-> 0, body |-> "none"],
     successes |-> 0]

\* process_tickers_from_file has not been called.  file and args are its
\* inputs, tickers and dates its local variables, results the rows so far,
\* runs the number of calls of run_hedge_fund and error the exception that
\* left it.
NoBatch ==
    [pc |-> "idle", file |-> <<>>,
     args |-> [start_date |-> Malformed, end_date |-> Malformed],
     tickers |-> <<>>,
     dates |-> [start_date |-> Malformed, end_date |-> Malformed],
     results |-> <<>>, runs |-> 0, error |-> "none"]

InitNoRun ==
    /\ InitWorkflow
    /\ threads = NoThreads
    /\ scorer = NoScorer
    /\ chat = NoChat
    /\ web = NoWeb
    /\ batch = NoBatch

\* lines 97-126: validation, then app.invoke(workflow_input)
run_hedge_fund ==
    /\ run.state = "none"
    /\ call.state = "idle"
    /\ \E cfg \in Configs :
         IF Validate(cfg) # "ok"
         THEN /\ run' = [run EXCEPT !.state = "rejected", !.config = cfg,
                                    !.error = "ValueError"]
              /\ UNCHANGED <<record, lastRan>>
         ELSE /\ run' = [run EXCEPT !.state = "invoked", !.config = cfg]
              /\ record' = workflow_input(cfg)
              /\ lastRan' = {"START"}
    /\ UNCHANGED <<dalVars, given, otherVars, active, snapshot, writes, completed,
                   merged, execCount, agent>>

\* the start of a step: every triggered node starts on the record as it is
BeginStep ==
    /\ run.state = "invoked"
    /\ active = {}
    /\ Triggered(lastRan) # {}
    /\ active' = Triggered(lastRan)
    /\ snapshot' = [n \in Nodes |-> IF n \in Triggered(lastRan) THEN record
                                    ELSE snapshot[n]]
    /\ execCount' = [n \in Nodes |-> IF n \in Triggered(lastRan)
                                     THEN execCount[n] + 1 ELSE execCount[n]]
    /\ writes' = [n \in Nodes |-> NoWrite]
    /\ completed' = <<>>
    /\ agent' = NoAgent
    /\ UNCHANGED <<dalVars, run, given, otherVars, record, lastRan, merged>>

\* a node reading the record with the writes of the nodes of its step that
\* have completed already applied
StateWithSiblingWrites(n) == ApplyWrites(snapshot[n], completed, writes)

\* the state a node function is called with: the record as it was when the
\* step of the node began
StateOf(n) == snapshot[n]

\* a given node function returns its output or raises
RunNode ==
    /\ \E n \in active \cap given.nodes :
         /\ writes[n].status = "running"
         /\ writes' = [writes EXCEPT ![n] =
                  IF n \in given.raises THEN Raised
                  ELSE IF n = "market_data_agent"
                       THEN MarketDataReturn(StateOf(n),
                              <<List(<<>>), MetricsDefault, StatementsDefault,
                                List(<<>>), MarketRecord("ok")>>)
                  ELSE IF n = "sentiment_agent"
                       THEN SentimentReturn(StateOf(n), given.form)
                  ELSE GivenReturn(n, StateOf(n), given)]
         /\ completed' = Append(completed, n)
    /\ UNCHANGED <<dalVars, run, given, otherVars, record, lastRan, active, snapshot,
                   merged, execCount, agent>>

\* The fetches a node of src makes, in order, and whether each is inside a
\* try/except of the node (market_data.py lines 30-156, sentiment.py lines
\* 136-144).
Plan(n) ==
    IF n = "market_data_agent"
    THEN <<"price_history", "financial_metrics", "financial_statements",
           "insider_trades", "market_data">>
    ELSE <<"market_data", "price_history", "options_data">>

\* no node catching the exceptions of its fetches
GuardedNever(n) == FALSE

\* market_data.py lines 30-156: each fetch of market_data_agent is in a try
\* of its own; sentiment_agent has none
Guarded(n) == n = "market_data_agent"

\* the value market_data_agent puts in place of a failed or empty fetch
Default(kind) ==
    CASE kind = "financial_metrics" -> MetricsDefault
      [] kind = "financial_statements" -> StatementsDefault
      [] kind = "market_data" -> Dict(<<"market_zero", "vix_0", "tnx_0">>)
      [] OTHER -> List(<<>>)

SrcRunning(n) ==
    /\ n \in active \ given.nodes
    /\ writes[n].status = "running"

\* the node calls its next fetch
AgentFetch ==
    /\ \E n \in Nodes :
         /\ SrcRunning(n)
         /\ call.state = "idle"
         /\ agent.pc < Len(Plan(n))
         /\ call' = Invoke(n, Plan(n)[agent.pc + 1], StateOf(n).data["ticker"])
    /\ UNCHANGED <<cache, runVars>>

\* the fetch is over: the node takes its value, puts the default in place
\* of an exception or an empty value when the call is guarded, and
\* otherwise lets the exception through
AgentTake ==
    /\ \E n \in Nodes :
         /\ SrcRunning(n)
         /\ call.caller = n
         /\ call.state \in {"returned", "raised"}
         /\ IF call.state = "raised" /\ ~Guarded(n)
            THEN /\ writes' = [writes EXCEPT ![n] = Raised]
                 /\ completed' = Append(completed, n)
                 /\ agent' = agent
            ELSE /\ agent' = [pc |-> agent.pc + 1,
                              fetched |-> Append(agent.fetched,
                                  IF call.state = "raised" THEN Default(call.kind)
                                  ELSE IF Guarded(n) /\ ~Truthy(call.value)
                                       THEN Default(call.kind)
                                  ELSE call.value)]
                 /\ UNCHANGED <<writes, completed>>
    /\ call' = Idle
    /\ UNCHANGED <<cache, run, given, otherVars, record, lastRan, active, snapshot,
                   merged, execCount>>

\* the node returns its update of the record
AgentReturn ==
    /\ \E n \in Nodes :
         /\ SrcRunning(n)
         /\ call.state = "idle"
         /\ agent.pc = Len(Plan(n))
         /\ writes' = [writes EXCEPT ![n] =
                IF n = "market_data_agent"
                THEN MarketDataReturn(StateOf(n), agent.fetched)
                ELSE SentimentReturn(StateOf(n), "json_compact")]
         /\ completed' = Append(completed, n)
    /\ UNCHANGED <<dalVars, run, given, otherVars, record, lastRan, active, snapshot,
                   merged, execCount, agent>>

\* the end of a step: an exception of a node leaves app.invoke, and
\* run_hedge_fund logs it and raises it again (lines 145-147); otherwise
\* the writes of the step are merged into the record
EndStep ==
    /\ run.state = "invoked"
    /\ active # {}
    /\ \A n \in active : writes[n].status # "running"
    /\ IF \E n \in active : writes[n].status = "raised"
       THEN /\ run' = [run EXCEPT !.state = "raised", !.error = "Exception"]
            /\ UNCHANGED <<record, lastRan, merged>>
       ELSE /\ record' = ApplyWrites(record, MergeOrder(active, completed), writes)
            /\ lastRan' = active
            /\ merged' = merged \cup active
            /\ run' = run
    /\ active' = {}
    /\ UNCHANGED <<dalVars, given, otherVars, snapshot, writes, completed, execCount, agent>>

\* lines 126-140: app.invoke returns the final record; the content of its
\* last message is the result
ReturnResult ==
    /\ run.state = "invoked"
    /\ active = {}
    /\ Triggered(lastRan) = {}
    /\ run' = [run EXCEPT !.state = "returned",
                          !.result = FormatResult(final_result(record.messages))]
    /\ UNCHANGED <<dalVars, given, otherVars, record, lastRan, active, snapshot, writes,
                   completed, merged, execCount, agent>>

-----------------------------------------------------------------------------
(* agents/sentiment.py : the scorers.  Numbers are exact fractions n/d   *)
(* with d > 0; the thresholds 0.7, 0.3, 0.9, 1.5, 1.2, 0.8 are 7/10, ...   *)

Frac(n, d) == [n |-> n, d |-> d]

Lt(a, b) == a.n * b.d < b.n * a.d

EqF(a, b) == a.n * b.d = b.n * a.d

\* Python min(a, b) and max(a, b): the first argument unless the second
\* is smaller (larger)
MinF(a, b) == IF Lt(b, a) THEN b ELSE a

MaxF(a, b) == IF Lt(a, b) THEN b ELSE a

OneMinus(a) == Frac(a.d - a.n, a.d)

DivBy(a, k) == Frac(a.n, a.d * k)

\* the result without the key "metrics" (metrics is FALSE)
Neutral == [signal |-> "neutral", confidence |-> Frac(1, 2), metrics |-> FALSE]

\* a / b of two floats, the denominator of the fraction kept positive
Quotient(a, b) == IF b < 0 THEN Frac(0 - a, 0 - b) ELSE Frac(a, b)

\* what a / b raises when b is 0
ZeroDivisionError == [raised |-> "ZeroDivisionError"]

Scored(signal, confidence) ==
    [signal |-> signal, confidence |-> confidence, metrics |-> TRUE]

\* sum(trade['value'] for trade in insider_trades if type matches)
RECURSIVE SumValue(_, _)
SumValue(trades, type) ==
    IF trades = <<>> THEN 0
    ELSE (IF Head(trades).transaction_type = type THEN Head(trades).value ELSE 0)
         + SumValue(Tail(trades), type)

\* analyze_insider_sentiment with the test ratio > 0.8 for bullish
analyze_insider_sentiment_08(insider_trades) ==
    IF insider_trades = <<>> THEN Neutral
    ELSE LET total_buy_value == SumValue(insider_trades, "BUY")
             total_sell_value == SumValue(insider_trades, "SELL")
             ratio == Quotient(total_buy_value, total_buy_value + total_sell_value)
         IN IF total_buy_value = 0 /\ total_sell_value = 0 THEN Neutral
            ELSE IF total_buy_value + total_sell_value = 0 THEN ZeroDivisionError
            ELSE IF Lt(Frac(8, 10), ratio)
                 THEN Scored("bullish", MinF(Frac(9, 10), ratio))
            ELSE IF Lt(ratio, Frac(3, 10))
                 THEN Scored("bearish", MinF(Frac(9, 10), OneMinus(ratio)))
            ELSE Scored("neutral", Frac(1, 2))

\* lines 82-117
analyze_insider_sentiment(insider_trades) ==
    IF insider_trades = <<>> THEN Neutral
    ELSE LET total_buy_value == SumValue(insider_trades, "BUY")
             total_sell_value == SumValue(insider_trades, "SELL")
             ratio == Quotient(total_buy_value, total_buy_value + total_sell_value)
         IN IF total_buy_value = 0 /\ total_sell_value = 0 THEN Neutral
            ELSE IF total_buy_value + total_sell_value = 0 THEN ZeroDivisionError
            ELSE IF Lt(Frac(7, 10), ratio)
                 THEN Scored("bullish", MinF(Frac(9, 10), ratio))
            ELSE IF Lt(ratio, Frac(3, 10))
                 THEN Scored("bearish", MinF(Frac(9, 10), OneMinus(ratio)))
            ELSE Scored("neutral", Frac(1, 2))

\* analyze_options_sentiment with "and" in the test for bearish
analyze_options_sentiment_and(options_data) ==
    IF options_data.shape \in {"empty", "error"} THEN Neutral
    ELSE LET put_call_ratio == Frac(options_data.put_call_ratio, 100)
             iv_skew == IF options_data.avg_call_iv > 0
                        THEN Frac(options_data.avg_put_iv, options_data.avg_call_iv)
                        ELSE Frac(1, 1)
         IN IF Lt(Frac(15, 10), put_call_ratio) /\ Lt(Frac(12, 10), iv_skew)
            THEN Scored("bearish",
                        MinF(Frac(9, 10), MaxF(DivBy(put_call_ratio, 3), DivBy(iv_skew, 2))))
            ELSE IF Lt(put_call_ratio, Frac(7, 10)) \/ Lt(iv_skew, Frac(8, 10))
            THEN Scored("bullish",
                        MinF(Frac(9, 10), MaxF(OneMinus(put_call_ratio), OneMinus(iv_skew))))
            ELSE Scored("neutral", Frac(1, 2))

\* lines 51-80; the numbers of options_data are in hundredths
analyze_options_sentiment(options_data) ==
    IF options_data.shape \in {"empty", "error"} THEN Neutral
    ELSE LET put_call_ratio == Frac(options_data.put_call_ratio, 100)
             iv_skew == IF options_data.avg_call_iv > 0
                        THEN Frac(options_data.avg_put_iv, options_data.avg_call_iv)
                        ELSE Frac(1, 1)
         IN IF Lt(Frac(15, 10), put_call_ratio) \/ Lt(Frac(12, 10), iv_skew)
            THEN Scored("bearish",
                        MinF(Frac(9, 10), MaxF(DivBy(put_call_ratio, 3), DivBy(iv_skew, 2))))
            ELSE IF Lt(put_call_ratio, Frac(7, 10)) \/ Lt(iv_skew, Frac(8, 10))
            THEN Scored("bullish",
                        MinF(Frac(9, 10), MaxF(OneMinus(put_call_ratio), OneMinus(iv_skew))))
            ELSE Scored("neutral", Frac(1, 2))

\* round(x) of Python for x = n/d with n >= 0 and d > 0: the nearest
\* integer, and of two equally near ones the even one
Round(x) ==
    LET q == x.n \div x.d
        r == x.n % x.d
    IN IF 2 * r < x.d THEN q
       ELSE IF 2 * r > x.d THEN q + 1
       ELSE IF q % 2 = 0 THEN q ELSE q + 1

\* the four weights all 0.25, in hundredths
sentiment_weights_equal ==
    [news |-> 25, fear_greed |-> 25, options |-> 25, insider |-> 25]

\* sentiment.py lines 152-169: the weights of sentiment_signals, in
\* hundredths
sentiment_weights ==
    [news |-> 30, fear_greed |-> 30, options |-> 20, insider |-> 20]

RECURSIVE SumOver(_, _)
SumOver(S, f) ==
    IF S = {} THEN 0
    ELSE LET k == CHOOSE k \in S : TRUE IN f[k] + SumOver(S \ {k}, f)

RECURSIVE GCD(_, _)
GCD(a, b) == IF b = 0 THEN a ELSE GCD(b, a % b)

\* a + b of two fractions that are not negative, in lowest terms
AddF(a, b) ==
    LET n == a.n * b.d + b.n * a.d
        d == a.d * b.d
        g == GCD(n, d)
    IN Frac(n \div g, d \div g)

\* lines 172-173; the scores are fractions
weighted_sentiment(scores) ==
    LET names == DOMAIN sentiment_weights
        total_weight == SumOver(names, sentiment_weights)
        RECURSIVE Sum(_)
        Sum(S) ==
            IF S = {} THEN Frac(0, 1)
            ELSE LET k == CHOOSE k \in S : TRUE
                 IN AddF(Frac(scores[k].n * sentiment_weights[k], scores[k].d),
                         Sum(S \ {k}))
    IN AddF(DivBy(Sum(names), total_weight), Frac(0, 1))

\* lines 176-184: the signal and the number of the percentage string
overall_signal(scores) ==
    LET w == weighted_sentiment(scores)
        Percent(x) == Round(Frac(x.n * 100, x.d))
        abs2 == IF 2 * w.n < w.d THEN w.d - 2 * w.n ELSE 2 * w.n - w.d
    IN IF ~Lt(w, Frac(6, 10))
       THEN [signal |-> "bullish", percent |-> Percent(w), weighted |-> w]
       ELSE IF ~Lt(Frac(4, 10), w)
       THEN [signal |-> "bearish", percent |-> Percent(OneMinus(w)),
             weighted |-> w]
       ELSE [signal |-> "neutral", percent |-> Percent(Frac(w.d - abs2, w.d)),
             weighted |-> w]

SubScores ==
    [news : {0, 35, 50, 65, 100}, fear_greed : {0, 40, 55, 60, 100},
     options : {50, 67, 90}, insider : {50, 80, 90}]

WeightedSentiment ==
    /\ scorer = NoScorer
    /\ \E scores \in SubScores :
         scorer' = [fn |-> "weighted_sentiment", input |-> scores,
                    result |-> overall_signal(
                        [k \in DOMAIN scores |-> Frac(scores[k], 100)])]
    /\ UNCHANGED <<dalVars, run, given, record, lastRan, active, snapshot,
                   writes, completed, merged, execCount, agent, threads, chat,
                   appVars>>

\* the average that rolling(window=50).mean() gives over fewer than 50 rows
NaN == 0 - 1

\* sentiment.py lines 13-49. The price history is "empty" (no row, so no
\* column 'close'), "short" (fewer rows than the window of 125, the moving
\* average is NaN) or "full", with the last close in hundredths of the
\* moving average; min(100, max(0, NaN)) is 0. The result holds the scores
\* appended and their mean.
calculate_fear_greed_index(prices, market_data) ==
    LET Clamp(x) == IF x < 0 THEN 0 ELSE IF x > 100 THEN 100 ELSE x
        momentum == IF prices.rows = "short" THEN <<0>>
                    ELSE <<Clamp((prices.ratio - 100) + 50)>>
        vix == IF market_data.vix = 0 \/ market_data.vix_50d_avg = 0 THEN <<>>
               ELSE IF market_data.vix_50d_avg = NaN THEN <<0>>
               ELSE <<Clamp(100 - (100 * market_data.vix)
                                    \div market_data.vix_50d_avg)>>
        volume == IF market_data.average_volume > 0
                  THEN <<Clamp((100 * market_data.volume)
                                   \div market_data.average_volume - 50)>>
                  ELSE <<>>
        treasury == IF market_data.treasury_yield = 0 THEN <<>>
                    ELSE <<Clamp(market_data.treasury_yield * 10)>>
        scores == momentum \o vix \o volume \o treasury
        total == SumOver(DOMAIN scores, scores)
    IN IF prices.rows = "empty"
       THEN [raised |-> TRUE, scores |-> <<>>, value |-> Frac(0, 1)]
       ELSE [raised |-> FALSE, scores |-> scores,
             value |-> IF scores # <<>> THEN Frac(total, Len(scores))
                       ELSE Frac(50, 1)]

FearGreedInputs ==
    [prices : {[rows |-> "empty", ratio |-> 100],
               [rows |-> "short", ratio |-> 100]}
              \cup [rows : {"full"}, ratio : {70, 200}],
     market_data : [vix : {0, 15, 30}, vix_50d_avg : {0, NaN, 20},
                    volume : {0, 200}, average_volume : {0, 100},
                    treasury_yield : {0, 4}]]

FearGreedIndex ==
    /\ scorer = NoScorer
    /\ \E i \in FearGreedInputs :
         scorer' = [fn |-> "calculate_fear_greed_index", input |-> i,
                    result |-> calculate_fear_greed_index(i.prices,
                                                          i.market_data)]
    /\ UNCHANGED <<dalVars, run, given, record, lastRan, active, snapshot,
                   writes, completed, merged, execCount, agent, threads, chat,
                   appVars>>

\* Series.get(key, default): the default only when the series has no such row
get(series, key, default) ==
    IF key \in DOMAIN series THEN series[key] ELSE default

\* a / b of two float64 of a Series: inf or nan when b is 0
TrueDivide(a, b) ==
    IF b # 0 THEN [kind |-> "number", value |-> Quotient(a, b)]
    ELSE IF a = 0 THEN [kind |-> "nan"]
    ELSE [kind |-> "inf"]

\* api.py lines 110-115, the columns of financials being latest_financials
\* and prev_financials
growth_rates(latest_financials, prev_financials) ==
    [revenue_growth |->
        TrueDivide(get(latest_financials, "Total Revenue", 0)
                       - get(prev_financials, "Total Revenue", 0),
                   get(prev_financials, "Total Revenue", 1)),
     earnings_growth |->
        TrueDivide(get(latest_financials, "Net Income", 0)
                       - get(prev_financials, "Net Income", 0),
                   get(prev_financials, "Net Income", 1))]

FinancialsColumns ==
    UNION {[rows -> {0, 100, 150}] : rows \in SUBSET {"Total Revenue", "Net Income"}}

GrowthRates ==
    /\ scorer = NoScorer
    /\ \E latest \in FinancialsColumns, prev \in FinancialsColumns :
         scorer' = [fn |-> "growth_rates",
                    input |-> [latest |-> latest, prev |-> prev],
                    result |-> growth_rates(latest, prev)]
    /\ UNCHANGED <<dalVars, run, given, record, lastRan, active, snapshot,
                   writes, completed, merged, execCount, agent, threads, chat,
                   appVars>>

\* the inputs: lists of at most MaxTrades trades, and options records
MaxTrades == 2

TradeValues == {0 - 200, 0, 200, 300, 700, 800}

Trades == [transaction_type : {"BUY", "SELL"}, value : TradeValues]

TradeLists == UNION {[1..n -> Trades] : n \in 0..MaxTrades}

OptionsInputs ==
    [shape : {"record"}, put_call_ratio : {0, 69, 70, 100, 150, 151, 200, 300},
     avg_put_iv : {0, 39, 40, 48, 50, 60, 61}, avg_call_iv : {0, 40, 50}]
    \cup [shape : {"empty", "error"}, put_call_ratio : {0}, avg_put_iv : {0},
          avg_call_iv : {0}]

\* some options data: none, neutral, bearish (twice) and bullish (twice)
SomeOptions ==
    {o \in OptionsInputs :
        \/ o.shape = "empty"
        \/ /\ o.shape = "record"
           /\ <<o.put_call_ratio, o.avg_put_iv, o.avg_call_iv>> \in
                {<<100, 40, 40>>, <<200, 50, 40>>, <<151, 40, 40>>,
                 <<0, 0, 0>>, <<69, 40, 40>>}}

\* sentiment.py lines 143-173: the two analyses, their confidences taken as
\* scores beside those of the news and of the fear and greed index (in
\* hundredths), and the weighted sentiment
SentimentSignals ==
    /\ scorer = NoScorer
    /\ \E news \in {35, 65}, fear_greed \in {40, 60},
          options_data \in SomeOptions, insider_trades \in TradeLists :
         LET options_sentiment == analyze_options_sentiment(options_data)
             insider_sentiment == analyze_insider_sentiment(insider_trades)
             scores == [news |-> Frac(news, 100),
                        fear_greed |-> Frac(fear_greed, 100),
                        options |-> options_sentiment.confidence,
                        insider |-> insider_sentiment.confidence]
         IN scorer' =
              [fn |-> "sentiment_signals",
               input |-> [news |-> news, fear_greed |-> fear_greed,
                          options_data |-> options_data,
                          insider_trades |-> insider_trades],
               result |->
                  IF insider_sentiment = ZeroDivisionError THEN ZeroDivisionError
                  ELSE [options |-> options_sentiment.signal,
                        insider |-> insider_sentiment.signal,
                        scores |-> scores,
                        weighted |-> weighted_sentiment(scores)]]
    /\ UNCHANGED <<dalVars, run, given, record, lastRan, active, snapshot,
                   writes, completed, merged, execCount, agent, threads, chat,
                   appVars>>

InsiderSentiment ==
    /\ scorer = NoScorer
    /\ \E insider_trades \in TradeLists :
         scorer' = [fn |-> "analyze_insider_sentiment", input |-> insider_trades,
                    result |-> analyze_insider_sentiment(insider_trades)]
    /\ UNCHANGED <<dalVars, run, given, record, lastRan, active, snapshot,
                   writes, completed, merged, execCount, agent, threads, chat,
                   appVars>>

OptionsSentiment ==
    /\ scorer = NoScorer
    /\ \E options_data \in OptionsInputs :
         scorer' = [fn |-> "analyze_options_sentiment", input |-> options_data,
                    result |-> analyze_options_sentiment(options_data)]
    /\ UNCHANGED <<dalVars, run, given, record, lastRan, active, snapshot,
                   writes, completed, merged, execCount, agent, threads, chat,
                   appVars>>

-----------------------------------------------------------------------------
(* A caller of the data access layer alone.  The cache directory outlives *)
(* the process: it starts empty or with one entry left by an earlier run,  *)
(* among them the [] that get_financial_statements itself writes.          *)

Stored(kind) ==
    CASE kind = "financial_metrics" -> List(<<"metrics">>)
      [] kind = "financial_statements" -> List(<<"period_1", "period_2">>)
      [] kind = "insider_trades" -> List(<<"trade_newer", "trade_older">>)
      [] kind = "market_data" -> MarketRecord("ok")
      [] kind = "options_data" -> Dict(<<"options", "expiration">>)
      [] OTHER -> List(<<"price_row">>)

Keys == CACHE_DIRS \X Subjects

NoCache == [k \in Keys |-> None]

InitCache ==
    \/ cache = NoCache
    \/ \E k \in Keys : cache = [NoCache EXCEPT ![k] = Stored(k[1])]
    \/ \E t \in Tickers :
         cache = [NoCache EXCEPT ![<<"financial_statements", t>>] = List(<<>>)]

Init ==
    /\ InitCache
    /\ call = Idle
    /\ given = NoGiven
    /\ InitNoRun

Fetch ==
    /\ call.state = "idle"
    /\ \E kind \in CACHE_DIRS, ticker \in Tickers :
         call' = Invoke("caller", kind, ticker)
    /\ UNCHANGED <<cache, runVars>>

\* the caller takes the value or the exception of the finished call
Done ==
    /\ call.state \in {"returned", "raised"}
    /\ call.caller = "caller"
    /\ call' = Idle
    /\ UNCHANGED <<cache, runVars>>

Next == Fetch \/ wrapper \/ Done

Spec == Init /\ [][Next]_vars

\* The compiled workflow run by run_hedge_fund with given node functions.
InitGraph ==
    /\ cache = NoCache
    /\ call = Idle
    /\ given \in GivenFunctions(Nodes)
    /\ InitNoRun

NextGraph == run_hedge_fund \/ BeginStep \/ RunNode \/ EndStep \/ ReturnResult

SpecGraph == InitGraph /\ [][NextGraph]_vars

\* run_hedge_fund with the nodes of src run from their code and the nodes
\* that are not in src given.  ReturnResult is not among the steps: it is
\* never enabled here, because sentiment_agent calls get_price_history
\* outside any try and so raises in every run (RunNeverReturns).
InitRun ==
    /\ cache = NoCache
    /\ call = Idle
    /\ given = [nodes |-> NotInSrc, form |-> "json_compact", writers |-> {},
                raises |-> {}]
    /\ InitNoRun

NextRun ==
    \/ run_hedge_fund \/ BeginStep \/ RunNode \/ EndStep
    \/ AgentFetch \/ wrapper \/ AgentTake \/ AgentReturn

SpecRun == InitRun /\ [][NextRun]_vars

-----------------------------------------------------------------------------
(* tools/openrouter_config.py : get_chat_completion                        *)

\* line 98
max_tries == 5

\* what one request does: requests.post raises, raise_for_status raises,
\* the response has no choices, its first choice has no message content, or
\* it is valid and carries a content
ChatOutcomes ==
    [kind : {"network_error", "http_error", "no_choices", "malformed_choice"},
     content : {"None"}]
    \cup [kind : {"valid"}, content : {"content_a", "content_b"}]

\* the exceptions that are requests.exceptions.RequestException
RequestException == {"network_error", "http_error"}

ChatArgs == [max_retries : 0..3, initial_retry_delay : {1, 2}]

\* no except clause around the request
HandlerNone(kind) == "none"

\* the except clause that catches an exception of the request: "inner" is
\* line 137, "outer" line 147; both are except Exception
Handler(kind) == "inner"

\* a caller calls get_chat_completion; the decorator enters the body
ChatCall ==
    /\ chat.pc = "idle"
    /\ \E args \in ChatArgs :
         chat' = [NoChat EXCEPT !.pc = "loop", !.args = args, !.entries = 1]
    /\ UNCHANGED <<dalVars, run, given, record, lastRan, active, snapshot,
                   writes, completed, merged, execCount, agent, threads, scorer,
                   appVars>>

\* lines 116-145: one iteration of the for loop; a response without
\* choices goes on to the next iteration (continue, line 131)
ChatAttempt ==
    /\ chat.pc = "loop"
    /\ chat.attempt < chat.args.max_retries
    /\ \E o \in ChatOutcomes :
         LET c == [chat EXCEPT !.requests = @ + 1,
                               !.outcomes = Append(@, o.kind)]
         IN chat' =
              IF o.kind = "valid"
              THEN [c EXCEPT !.pc = "returned", !.result = o.content]
              ELSE IF o.kind = "no_choices" THEN [c EXCEPT !.attempt = @ + 1]
              ELSE IF Handler(o.kind) = "inner"
              THEN IF c.attempt < c.args.max_retries - 1
                   THEN [c EXCEPT !.sleeps = Append(@, c.args.initial_retry_delay
                                                        * Pow2(c.attempt)),
                                  !.attempt = @ + 1]
                   ELSE [c EXCEPT !.pc = "returned", !.result = "None"]
              ELSE IF Handler(o.kind) = "outer"
              THEN [c EXCEPT !.pc = "returned", !.result = "None"]
              ELSE IF o.kind \in RequestException /\ c.entries < max_tries
              THEN [c EXCEPT !.entries = @ + 1, !.attempt = 0]
              ELSE [c EXCEPT !.pc = "raised"]
    /\ UNCHANGED <<dalVars, run, given, record, lastRan, active, snapshot,
                   writes, completed, merged, execCount, agent, threads, scorer,
                   appVars>>

\* the for loop is over without a return: the function ends and returns
\* None
ChatLoopEnd ==
    /\ chat.pc = "loop"
    /\ chat.attempt = chat.args.max_retries
    /\ chat' = [chat EXCEPT !.pc = "returned", !.result = "None"]
    /\ UNCHANGED <<dalVars, run, given, record, lastRan, active, snapshot,
                   writes, completed, merged, execCount, agent, threads, scorer,
                   appVars>>

InitChat ==
    /\ cache = NoCache
    /\ call = Idle
    /\ given = NoGiven
    /\ InitNoRun

NextChat == ChatCall \/ ChatAttempt \/ ChatLoopEnd

SpecChat == InitChat /\ [][NextChat]_vars

-----------------------------------------------------------------------------
(* web/api.py : the endpoints and current_trading_state.  The handlers are *)
(* async functions without an await: each request is handled in one step.  *)

MaxRequests == 3

\* a date that the request leaves out
NoDate == [ok |-> FALSE, day |-> 0 - 1]

\* lines 103-139 of start_trading: the dates in place of the missing ones
\* and the status the checks answer with (200: none).  strptime of a
\* malformed end date at line 108 raises ValueError outside the inner try
\* (500), inside it the answer is 400.
request_dates(start_date, end_date) ==
    LET e == IF end_date = NoDate THEN Date(Today) ELSE end_date
        s == IF start_date # NoDate THEN start_date
             ELSE IF e.ok THEN Date(e.day - 90) ELSE Malformed
    IN [start_date |-> s, end_date |-> e,
        status |->
          IF start_date = NoDate /\ ~e.ok THEN 500
          ELSE IF ~s.ok \/ ~e.ok THEN 400
          ELSE IF s.day > Today \/ e.day > Today THEN 400
          ELSE IF s.day > e.day THEN 400
          ELSE IF e.day - s.day > 365 THEN 400
          ELSE 200]

\* what run_hedge_fund does for the request: it raises with a message, or
\* returns a text that is not JSON, JSON that is not an object, or an
\* object with or without the keys "portfolio" and "agents"
RunOutcomes ==
    [kind : {"raises"},
     of : {"Too Many Requests", "Expecting value", "possibly delisted", "other"}]
    \cup [kind : {"returns"},
          of : {"text", "json_list", "portfolio_agents", "portfolio",
                "agents", "decision"}]

\* lines 157-173: the status for the message of the exception
run_error_status(msg) ==
    CASE msg = "Too Many Requests" -> 429
      [] msg = "Expecting value" -> 502
      [] msg = "possibly delisted" -> 404
      [] OTHER -> 500

\* lines 183-199: result_data, the object parsed from the result, or the
\* one built around a result that is no JSON object
result_data(result) ==
    IF result \in {"text", "json_list"} THEN "fallback" ELSE result

\* whether result_data has the key
HasKey(data, key) ==
    CASE key = "portfolio" -> data \in {"fallback", "portfolio_agents", "portfolio"}
      [] key = "agents" -> data \in {"fallback", "portfolio_agents", "agents"}
      [] OTHER -> FALSE

\* lines 201-207: is_trading, portfolio, last_update and agent_data are
\* written before the entry of the history is computed
update_state(state, data, now) ==
    [state EXCEPT !.is_trading = TRUE, !.portfolio = data,
                  !.last_update = now,
                  !.agent_data = IF HasKey(data, "agents") THEN data ELSE @]

\* POST /api/start-trading, lines 98-242
start_trading ==
    /\ web.now < MaxRequests
    /\ \E start_date \in DateStrings \cup {NoDate},
          end_date \in DateStrings \cup {NoDate}, o \in RunOutcomes :
         LET now == web.now + 1
             dates == request_dates(start_date, end_date)
             data == result_data(o.of)
             state == web.current_trading_state
             Answer(status, body) ==
                 [endpoint |-> "start-trading", status |-> status, body |-> body]
         IN web' =
              IF dates.status # 200
              THEN [web EXCEPT !.now = now,
                               !.answer = Answer(dates.status, "HTTPException")]
              ELSE IF o.kind = "raises"
              THEN [web EXCEPT !.now = now,
                               !.answer = Answer(run_error_status(o.of),
                                                 "HTTPException")]
              ELSE IF ~HasKey(data, "portfolio")
              THEN [web EXCEPT !.now = now,
                               !.current_trading_state =
                                   update_state(state, data, now),
                               !.answer = Answer(500, "HTTPException")]
              ELSE [web EXCEPT !.now = now,
                               !.current_trading_state =
                                   [update_state(state, data, now) EXCEPT
                                      !.portfolio_history =
                                          Append(@, [timestamp |-> now, of |-> data])],
                               !.answer = Answer(200, "success"),
                               !.successes = @ + 1]
    /\ UNCHANGED <<dalVars, run, given, record, lastRan, active, snapshot,
                   writes, completed, merged, execCount, agent, threads, scorer,
                   chat, batch>>

\* GET /api/trading-status, lines 248-271
get_trading_status ==
    /\ web.now < MaxRequests
    /\ web' = [web EXCEPT
                 !.now = @ + 1,
                 !.answer = [endpoint |-> "trading-status", status |-> 200,
                             body |-> IF ~web.current_trading_state.is_trading
                                      THEN "inactive" ELSE "active"]]
    /\ UNCHANGED <<dalVars, run, given, record, lastRan, active, snapshot,
                   writes, completed, merged, execCount, agent, threads, scorer,
                   chat, batch>>

\* GET /api/trading-results, lines 273-300
get_trading_results ==
    /\ web.now < MaxRequests
    /\ web' = [web EXCEPT
                 !.now = @ + 1,
                 !.answer = [endpoint |-> "trading-results", status |-> 200,
                             body |-> IF web.current_trading_state.portfolio_history = <<>>
                                      THEN "initial_data" ELSE "portfolio_history"]]
    /\ UNCHANGED <<dalVars, run, given, record, lastRan, active, snapshot,
                   writes, completed, merged, execCount, agent, threads, scorer,
                   chat, batch>>

InitWeb ==
    /\ cache = NoCache
    /\ call = Idle
    /\ given = NoGiven
    /\ InitNoRun

NextWeb == start_trading \/ get_trading_status \/ get_trading_results

SpecWeb == InitWeb /\ [][NextWeb]_vars

-----------------------------------------------------------------------------
(* main.py : process_tickers_from_file                                     *)

MaxLines == 2

\* the lines a tickers file is made of, and line.strip()
LineTexts == {"", "  ", "AAPL", " msft "}

strip(line) ==
    CASE line = "  " -> ""
      [] line = " msft " -> "msft"
      [] OTHER -> line

\* a file that is missing, or its lines
Files ==
    {<<"missing">>} \cup UNION {[1..n -> LineTexts] : n \in 0..MaxLines}

\* every line stripped, the blank ones too
read_tickers_all(lines) == [k \in DOMAIN lines |-> strip(lines[k])]

\* line 207: [line.strip() for line in f if line.strip()]
read_tickers(lines) ==
    LET stripped == [k \in DOMAIN lines |-> strip(lines[k])]
    IN SelectSeq(stripped, LAMBDA t : t # "")

\* lines 212-218: the dates in place of the missing ones; strptime of a
\* malformed end date raises ValueError as validate_dates does
default_dates(start_date, end_date) ==
    LET e == IF end_date = NoDate THEN Date(Today) ELSE end_date
    IN [start_date |-> IF start_date # NoDate THEN start_date
                       ELSE IF e.ok THEN Date(e.day - 90) ELSE Malformed,
        end_date |-> e]

\* lines 200-221: the file is read and the dates are validated, once
process_tickers_from_file ==
    /\ batch.pc = "idle"
    /\ \E file \in Files, start_date \in DateStrings \cup {NoDate},
          end_date \in DateStrings \cup {NoDate} :
         LET b == [batch EXCEPT !.file = file,
                                !.args = [start_date |-> start_date,
                                          end_date |-> end_date]]
             tickers == read_tickers(file)
             dates == default_dates(start_date, end_date)
         IN batch' =
              IF file = <<"missing">>
              THEN [b EXCEPT !.pc = "raised", !.error = "FileNotFoundError"]
              ELSE IF tickers = <<>>
              THEN [b EXCEPT !.pc = "raised",
                             !.error = "No valid tickers found in file"]
              ELSE IF validate_dates(dates.start_date, dates.end_date) # "ok"
              THEN [b EXCEPT !.pc = "raised",
                             !.error = validate_dates(dates.start_date,
                                                      dates.end_date)]
              ELSE [b EXCEPT !.pc = "loop", !.tickers = tickers, !.dates = dates]
    /\ UNCHANGED <<dalVars, run, given, record, lastRan, active, snapshot,
                   writes, completed, merged, execCount, agent, threads, scorer,
                   chat, web>>

\* lines 224-250: one iteration of the loop; run_hedge_fund returns or
\* raises, and either way a row is appended
ProcessTicker ==
    /\ batch.pc = "loop"
    /\ Len(batch.results) < Len(batch.tickers)
    /\ \E raises \in BOOLEAN :
         batch' = [batch EXCEPT
                     !.runs = @ + 1,
                     !.results = Append(@,
                         [ticker |-> batch.tickers[Len(batch.results) + 1],
                          analysis_date |-> batch.dates.end_date,
                          status |-> IF raises THEN "error" ELSE "success"])]
    /\ UNCHANGED <<dalVars, run, given, record, lastRan, active, snapshot,
                   writes, completed, merged, execCount, agent, threads, scorer,
                   chat, web>>

\* line 252: return pd.DataFrame(results)
ReturnFrame ==
    /\ batch.pc = "loop"
    /\ Len(batch.results) = Len(batch.tickers)
    /\ batch' = [batch EXCEPT !.pc = "returned"]
    /\ UNCHANGED <<dalVars, run, given, record, lastRan, active, snapshot,
                   writes, completed, merged, execCount, agent, threads, scorer,
                   chat, web>>

InitBatch ==
    /\ cache = NoCache
    /\ call = Idle
    /\ given = NoGiven
    /\ InitNoRun

NextBatch == process_tickers_from_file \/ ProcessTicker \/ ReturnFrame

SpecBatch == InitBatch /\ [][NextBatch]_vars

\* A caller of the scorers alone.
InitScorers ==
    /\ cache = NoCache
    /\ call = Idle
    /\ given = NoGiven
    /\ InitNoRun

NextScorers ==
    \/ InsiderSentiment
    \/ OptionsSentiment
    \/ WeightedSentiment
    \/ FearGreedIndex
    \/ GrowthRates
    \/ SentimentSignals

SpecScorers == InitScorers /\ [][NextScorers]_vars

\* Two threads that each call one fetch, on an empty cache directory.
InitThreads ==
    /\ cache = NoCache
    /\ call = Idle
    /\ given = NoGiven
    /\ InitWorkflow
    /\ threads = [t \in Callers |-> ThreadIdle]
    /\ scorer = NoScorer
    /\ chat = NoChat
    /\ web = NoWeb
    /\ batch = NoBatch

NextThreads ==
    ThreadCall \/ ThreadRead \/ ThreadProvider \/ ThreadOpen \/ ThreadClose

SpecThreads == InitThreads /\ [][NextThreads]_vars

-----------------------------------------------------------------------------
(* Properties of the data access layer (Spec)                              *)

Finished == call.state \in {"returned", "raised"}

\* the outcomes on which the provider answers with data
Success(kind) ==
    CASE kind = "financial_metrics" -> {"one", "two"}
      [] kind = "financial_statements" -> {"one", "two", "three"}
      [] kind = "insider_trades" -> {"trades"}
      [] kind = "market_data" -> {"ok"}
      [] kind = "options_data" -> {"chain"}
      [] OTHER -> {"rows"}

\* the degraded shape the specification documents for each kind
Fallback(kind) ==
    CASE kind = "financial_metrics" -> List(<<"metrics_zero">>)
      [] kind = "financial_statements" -> List(<<"default_item", "default_item">>)
      [] kind = "insider_trades" -> List(<<>>)
      [] kind = "market_data" -> Dict(<<"market_zero", "vix_0", "tnx_0">>)
      [] kind = "options_data" -> Dict(<<"options_zero", "expiration_null">>)
      [] OTHER -> List(<<>>)

\* C1: a fetch that finds a cache entry for its key, whatever the payload,
\* returns that entry as it is, calls no provider and raises nothing.
C1_CacheHitReturnsEntry ==
    (Finished /\ call.entry0.tag # "none") =>
        /\ call.state = "returned"
        /\ call.value = call.entry0
        /\ call.calls = 0

\* C2: with no cache entry, a fetch whose provider fails on three attempts
\* and answers with data on the fourth returns a normalised record that is
\* not the fallback and writes it to the cache.
C2_ThreeFailuresThenSuccess ==
    (/\ Finished
     /\ call.entry0.tag = "none"
     /\ call.attempts = retries + 1 /\ call.errors = retries
     /\ call.last \in Success(call.kind)) =>
        /\ call.state = "returned"
        /\ call.value # Fallback(call.kind)
        /\ Truthy(call.value)
        /\ read_cache(cache, call.kind, call.ticker) = call.value

\* C3: a fetch whose provider fails on four consecutive attempts returns
\* the fallback shape of its kind; no exception reaches the caller.
C3_FourFailuresGiveFallback ==
    (Finished /\ call.errors = retries + 1) =>
        /\ call.state = "returned"
        /\ call.value = Fallback(call.kind)

\* C9 as stated: the body of a fetch runs at most 3 times per call.
C9_AtMostThreeAttempts == call.attempts <= 3

\* C9 amended: the body of a fetch runs at most retries + 1 = 4 times per
\* call (one attempt and up to three retries), and the call raises only
\* when the fourth run of the body has raised.
C9_AtMostFourAttempts ==
    /\ call.attempts <= 4
    /\ call.state = "raised" => call.attempts = 4
    /\ call.state = "active" => call.attempts = call.x

C9_Witness == call.state = "raised" /\ call.attempts = 4

\* C10: get_financial_statements returns exactly two records on every path
\* that returns.
C10_StatementsAlwaysTwo ==
    (call.kind = "financial_statements" /\ call.state = "returned") =>
        Len(call.value.items) = 2

\* the call asked the provider (its key had no usable entry) and has returned
Answered(kind, o) ==
    /\ call.state = "returned"
    /\ call.kind = kind
    /\ call.calls > 0
    /\ call.last = o

\* C11: when the provider has exactly one financial period,
\* get_financial_statements returns two records that are equal, and that
\* same two-record value is what the cache holds for the key.
C11_OnePeriodDuplicated ==
    Answered("financial_statements", "one") =>
        /\ Len(call.value.items) = 2
        /\ call.value.items[1] = call.value.items[2]
        /\ call.value.items[1] = Periods("one")[1]
        /\ call.wrote
        /\ read_cache(cache, "financial_statements", call.ticker) = call.value

C11_Witness ==
    /\ Answered("financial_statements", "one")
    /\ call.attempts = 1
    /\ cache[<<"financial_statements", call.ticker>>] =
           List(<<"period_1", "period_1">>)

\* the outcomes on which the provider answers without error but has nothing
Empty(kind) ==
    CASE kind = "financial_metrics" -> {"empty"}
      [] kind = "financial_statements" -> {"zero"}
      [] kind = "insider_trades" -> {"none"}
      [] kind = "market_data" -> {}
      [] kind = "options_data" -> {"none"}
      [] OTHER -> {"empty"}

\* C12: with no cache entry, an attempt on which the provider answers
\* without error but with an empty result ends the call at once (no retry)
\* and the call returns the documented degraded shape of its kind.
C12_EmptyResultGivesFallback ==
    (/\ call.state # "idle"
     /\ call.entry0.tag = "none"
     /\ call.attempts > 0
     /\ call.last \in Empty(call.kind)) =>
        /\ call.state = "returned"
        /\ call.value = Fallback(call.kind)

\* C13: a cache entry that exists is never deleted or changed by a step of
\* any fetch.
C13_EntryNeverChanges ==
    [][\A k \in Keys : cache[k].tag # "none" => cache'[k] = cache[k]]_vars

\* the outcomes on which the value returned is degraded: a fallback shape,
\* an empty result, or a record with fields defaulted to 0
Degraded(kind) ==
    CASE kind = "financial_metrics" -> {"empty", "value_error"}
      [] kind = "financial_statements" -> {"error", "zero"}
      [] kind = "insider_trades" -> {"error", "none"}
      [] kind = "market_data" -> {"vix_fails", "tnx_fails", "both_fail"}
      [] kind = "options_data" -> {"error", "none"}
      [] OTHER -> {"empty"}

\* C14: a fetch that returns a degraded value writes nothing to the cache:
\* the entry of its key is as it was when the call began.
C14_DegradedNotCached ==
    (/\ call.state = "returned"
     /\ call.calls > 0
     /\ call.last \in Degraded(call.kind)) =>
        /\ ~call.wrote
        /\ cache[<<call.kind, call.ticker>>] = call.entry0

-----------------------------------------------------------------------------
(* Properties of concurrent fetches (SpecThreads)                          *)

ThreadOver(t) == threads[t].pc \in {"returned", "raised"}

ThreadKey(t) == <<threads[t].kind, threads[t].ticker>>

\* the thread whose write_cache was the last to finish
LastWriter(k) ==
    CHOOSE t \in Callers :
        /\ ThreadKey(t) = k /\ threads[t].closed > 0
        /\ \A u \in Callers : threads[u].closed <= threads[t].closed

\* C15: when two threads have fetched the same key, uncached when they
\* began, neither has read a partially written entry, each one that
\* returned holds a complete record, and the cache holds a complete entry
\* equal to the value of the last write.
C15_ConcurrentSameKeyBenign ==
    \A a, b \in Callers :
        (/\ a # b /\ ThreadOver(a) /\ ThreadOver(b)
         /\ ThreadKey(a) = ThreadKey(b)
         /\ threads[a].closed > 0) =>
            /\ ~threads[a].sawInvalid /\ ~threads[b].sawInvalid
            /\ \A t \in {a, b} :
                  threads[t].pc = "returned" => Truthy(threads[t].value)
            /\ cache[ThreadKey(a)] = threads[LastWriter(ThreadKey(a))].value

\* the race that leaves a file that is no JSON document: both threads have
\* written and the cache entry is torn
TornEntry ==
    \E k \in Keys :
        /\ cache[k] = Torn
        /\ \A t \in Callers : threads[t].pc = "returned" /\ threads[t].closed > 0

NoTornEntry == ~TornEntry

\* C16: a step of a fetch changes the cache entry of no key but the one
\* the fetching thread was called for.
C16_OtherKeysUntouched ==
    [][\A k \in Keys : cache'[k] # cache[k] =>
          \E t \in Callers :
              /\ ThreadKey(t) = k
              /\ threads[t].pc \in {"open", "dump"}
              /\ threads'[t].pc # threads[t].pc]_vars

C16_Witness ==
    /\ threads[1].pc = "returned" /\ threads[1].closed > 0
    /\ threads[2].pc = "returned" /\ threads[2].closed > 0
    /\ ThreadKey(1) = <<"market_data", "AAPL">>
    /\ ThreadKey(2) = <<"insider_trades", "AAPL">>
    /\ cache[ThreadKey(1)] = threads[1].value
    /\ cache[ThreadKey(2)] = threads[2].value
    /\ \A k \in Keys \ {ThreadKey(1), ThreadKey(2)} : cache[k] = None

-----------------------------------------------------------------------------
(* Properties of the run (SpecRun, SpecGraph)                              *)

\* C4: a run whose configuration passed validation never ends by raising:
\* a failure inside a node is turned into degraded output.
C4_RunNeverRaises == run.state # "raised"

\* With the nodes of src run from their code no run returns a result.
RunNeverReturns == ~ENABLED ReturnResult

\* the output of node p is in the record rec
HasOutput(rec, p) ==
    IF p = "market_data_agent" THEN "prices" \in DOMAIN rec.data
    ELSE \E i \in 1..Len(rec.messages) : rec.messages[i].name = p

\* the nodes the claims name as the predecessors of each node
DeclaredPred(n) ==
    CASE n \in {"technical_analyst_agent", "fundamentals_agent",
                "sentiment_agent", "valuation_agent"} -> {"market_data_agent"}
      [] n = "risk_management_agent" ->
           {"technical_analyst_agent", "fundamentals_agent",
            "sentiment_agent", "valuation_agent"}
      [] n = "portfolio_management_agent" -> {"risk_management_agent"}
      [] OTHER -> {}

\* C5: a node that has started was handed a record into which the output
\* of every one of its predecessors had been merged.
C5_StartsAfterPredecessorsMerged ==
    \A n \in Nodes : execCount[n] > 0 =>
        \A p \in DeclaredPred(n) : p \in merged /\ HasOutput(snapshot[n], p)

C5_Witness ==
    /\ "portfolio_management_agent" \in active
    /\ execCount["risk_management_agent"] = 1
    /\ execCount["sentiment_agent"] = 1

AnalysisNodes ==
    {"technical_analyst_agent", "fundamentals_agent", "sentiment_agent",
     "valuation_agent"}

\* the record after the analysis step, written out from the outputs of
\* the four nodes: their messages in registration order after those of the
\* record they started on, and "verdict" from the last registered writer
ExpectedAfterAnalysis ==
    LET before == snapshot["sentiment_agent"]
        msg(n) == HumanMessage(n, Content(n, given.form))
        w == given.writers
        verdict == IF "valuation_agent" \in w THEN "valuation_agent"
                   ELSE IF "fundamentals_agent" \in w THEN "fundamentals_agent"
                   ELSE "technical_analyst_agent"
    IN [messages |-> before.messages \o
                     <<msg("technical_analyst_agent"), msg("fundamentals_agent"),
                       msg("sentiment_agent"), msg("valuation_agent")>>,
        data |-> IF w = {} THEN before.data
                 ELSE ("verdict" :> verdict) @@ before.data]

\* C6: whatever the order in which the four analysis nodes complete, the
\* record merged from their outputs, which risk_management_agent is handed,
\* is the same, and a key written by two of them holds the value of the one
\* registered later.
C6_MergeIndependentOfCompletionOrder ==
    /\ (lastRan = AnalysisNodes /\ active = {}) => record = ExpectedAfterAnalysis
    /\ execCount["risk_management_agent"] > 0 =>
           snapshot["risk_management_agent"] = ExpectedAfterAnalysis

C6_Witness ==
    /\ lastRan = AnalysisNodes
    /\ completed = <<"valuation_agent", "sentiment_agent", "fundamentals_agent",
                     "technical_analyst_agent">>
    /\ given.writers = {"technical_analyst_agent", "fundamentals_agent",
                        "valuation_agent"}
    /\ record.data["verdict"] = "valuation_agent"

InvalidConfig(cfg) ==
    \/ ~cfg.start_date.ok \/ ~cfg.end_date.ok
    \/ cfg.end_date.day - cfg.start_date.day > 365
    \/ cfg.start_date.day > cfg.end_date.day
    \/ cfg.end_date.day > Today
    \/ cfg.num_of_news < 1 \/ cfg.num_of_news > 100

\* C8: run_hedge_fund answers an invalid configuration with a ValueError
\* before any node has run and before any fetch has been made.
C8_InvalidConfigRejected ==
    (run.state # "none" /\ InvalidConfig(run.config)) =>
        /\ run.state = "rejected"
        /\ run.error = "ValueError"
        /\ \A n \in Nodes : execCount[n] = 0
        /\ call = Idle
        /\ record = NoRecord

C8_Witness ==
    /\ run.state = "rejected"
    /\ run.config.start_date = Date(Today - 400)
    /\ run.config.end_date = Date(Today)
    /\ run.config.ticker = "aapl"
    /\ run.config.num_of_news = 5

\* C17: each of the four analysis nodes is handed the record as merged
\* from the output of market_data_agent, the same for the four, with no
\* message and no key written by a sibling; what sentiment_agent returns as
\* the data it read holds nothing a sibling wrote during the step.
C17_AnalysisNodesReadEntrySnapshot ==
    /\ \A n \in AnalysisNodes : execCount[n] > 0 =>
          /\ snapshot[n] = snapshot["sentiment_agent"]
          /\ HasOutput(snapshot[n], "market_data_agent")
          /\ \A m \in AnalysisNodes : ~HasOutput(snapshot[n], m)
          /\ "verdict" \notin DOMAIN snapshot[n].data
    /\ ("sentiment_agent" \in active
            /\ writes["sentiment_agent"].status = "returned") =>
          /\ writes["sentiment_agent"].data = record.data
          /\ "verdict" \notin DOMAIN writes["sentiment_agent"].data

\* sentiment_agent returns after valuation_agent, which writes a key of the
\* data, has completed in the same step
C17_Witness ==
    /\ active = AnalysisNodes
    /\ "valuation_agent" \in given.writers
    /\ Len(completed) >= 2
    /\ completed[1] = "valuation_agent"
    /\ completed[2] = "sentiment_agent"
    /\ writes["sentiment_agent"].status = "returned"
    /\ writes["valuation_agent"].data = ("verdict" :> "valuation_agent")

\* the nodes that can be reached from the nodes of S along the edges
RECURSIVE Closure(_)
Closure(S) ==
    LET T == S \cup UNION {Succ(n) : n \in S}
    IN IF T = S THEN S ELSE Closure(T)

\* C18: the registered graph is acyclic, market_data_agent is its only node
\* without predecessor and the entry point, portfolio_management_agent is
\* its only node without successor and leads to END, and every node is
\* reachable from the entry and reaches the terminal; no node outside that
\* graph is ever started.
C18_GraphShape ==
    /\ \A n \in Nodes : n \notin Closure(Succ(n))
    /\ {n \in Nodes : Pred(n) = {}} = {"market_data_agent"}
    /\ <<"START", "market_data_agent">> \in Edges
    /\ {n \in Nodes : Succ(n) = {}} = {"portfolio_management_agent"}
    /\ <<"portfolio_management_agent", "END">> \in Edges
    /\ \A n \in Nodes :
          /\ n \in Closure({"market_data_agent"})
          /\ "portfolio_management_agent" \in Closure({n})
    /\ \A n \in Nodes : execCount[n] > 0 => n \in Closure({"market_data_agent"})

C18_Witness ==
    /\ active = {"portfolio_management_agent"}
    /\ merged = Nodes \ {"portfolio_management_agent"}
    /\ \A n \in Nodes : execCount[n] = 1

-----------------------------------------------------------------------------
(* Properties of the scorers (SpecScorers)                                 *)

\* C19: with buy-value b and sell-value s over all the trades, not both 0,
\* and ratio = b / (b + s), analyze_insider_sentiment returns bullish with
\* confidence min(0.9, ratio) when ratio > 0.7, bearish with confidence
\* min(0.9, 1 - ratio) when ratio < 0.3, neutral with confidence 0.5
\* otherwise; b = 800 and s = 200 give bullish with confidence 0.8.
C19_InsiderSentiment ==
    scorer.fn = "analyze_insider_sentiment" =>
        LET b == SumValue(scorer.input, "BUY")
            s == SumValue(scorer.input, "SELL")
            r == scorer.result
        IN /\ (b + s > 0 /\ 10 * b > 7 * (b + s)) =>
                 /\ r.signal = "bullish"
                 /\ IF 10 * b > 9 * (b + s) THEN EqF(r.confidence, Frac(9, 10))
                    ELSE EqF(r.confidence, Frac(b, b + s))
           /\ (b + s > 0 /\ 10 * b < 3 * (b + s)) =>
                 /\ r.signal = "bearish"
                 /\ IF 10 * s > 9 * (b + s) THEN EqF(r.confidence, Frac(9, 10))
                    ELSE EqF(r.confidence, Frac(s, b + s))
           /\ (b + s > 0 /\ 10 * b <= 7 * (b + s) /\ 10 * b >= 3 * (b + s)) =>
                 /\ r.signal = "neutral"
                 /\ EqF(r.confidence, Frac(1, 2))
           /\ (b = 800 /\ s = 200) =>
                 r.signal = "bullish" /\ EqF(r.confidence, Frac(8, 10))

C19_Witness ==
    /\ scorer.fn = "analyze_insider_sentiment"
    /\ scorer.input = <<[transaction_type |-> "BUY", value |-> 800],
                        [transaction_type |-> "SELL", value |-> 200]>>
    /\ scorer.result.signal = "bullish"
    /\ scorer.result.confidence = Frac(800, 1000)

\* C20: with ratio the put/call ratio and skew = avg put IV / avg call IV,
\* analyze_options_sentiment returns bearish when ratio > 1.5 or skew >
\* 1.2, otherwise bullish when ratio < 0.7 or skew < 0.8, otherwise neutral
\* with confidence 0.5; the confidence of a result that is not neutral is
\* at most 0.9; ratio 2.0 with IVs 0.5 and 0.4 (skew 1.25) gives bearish.
C20_OptionsSentiment ==
    (scorer.fn = "analyze_options_sentiment" /\ scorer.input.shape = "record"
        /\ scorer.input.avg_call_iv > 0) =>
        LET ratio == scorer.input.put_call_ratio
            put == scorer.input.avg_put_iv
            cll == scorer.input.avg_call_iv
            bearish == ratio > 150 \/ 10 * put > 12 * cll
            bullish == ratio < 70 \/ 10 * put < 8 * cll
            r == scorer.result
        IN /\ bearish => r.signal = "bearish"
           /\ (~bearish /\ bullish) => r.signal = "bullish"
           /\ (~bearish /\ ~bullish) =>
                 r.signal = "neutral" /\ EqF(r.confidence, Frac(1, 2))
           /\ r.signal # "neutral" => ~Lt(Frac(9, 10), r.confidence)
           /\ (ratio = 200 /\ put = 50 /\ cll = 40) =>
                 /\ r.signal = "bearish"
                 /\ 100 * put = 125 * cll

C20_Witness ==
    /\ scorer.fn = "analyze_options_sentiment"
    /\ scorer.input = [shape |-> "record", put_call_ratio |-> 200,
                       avg_put_iv |-> 50, avg_call_iv |-> 40]
    /\ scorer.result.signal = "bearish"
    /\ EqF(scorer.result.confidence, Frac(2, 3))

\* the sub-scores of the example: news 0.65, momentum 0.55, options 0.5,
\* insider 0.8
ExampleScores ==
    [news |-> 65, fear_greed |-> 55, options |-> 50, insider |-> 80]

\* the weighted average written out from the four weights 0.3, 0.3, 0.2,
\* 0.2, in ten-thousandths of the weight sum 1
ExpectedWeighted(sc) ==
    Frac(30 * sc.news + 30 * sc.fear_greed + 20 * sc.options + 20 * sc.insider,
         10000)

\* the labels and the rounded percentage of the overall sentiment
WeightedLabels ==
    scorer.fn = "weighted_sentiment" =>
        LET r == scorer.result
            e == ExpectedWeighted(scorer.input)
        IN /\ EqF(r.weighted, e)
           /\ e.n >= 6000 => r.signal = "bullish" /\ r.percent = Round(Frac(e.n, 100))
           /\ e.n <= 4000 => r.signal = "bearish"
           /\ (e.n > 4000 /\ e.n < 6000) => r.signal = "neutral"
           /\ r.percent \in 0..100

\* C21 as stated: weights 0.3, 0.3, 0.2, 0.2 over their sum, >= 0.6
\* bullish, <= 0.4 bearish, else neutral, confidence a rounded percentage;
\* the sub-scores 0.65, 0.55, 0.5, 0.8 give 0.615, bullish, "62%".
C21_WeightedSentiment ==
    /\ WeightedLabels
    /\ (scorer.fn = "weighted_sentiment" /\ scorer.input = ExampleScores) =>
          /\ EqF(scorer.result.weighted, Frac(615, 1000))
          /\ scorer.result.signal = "bullish"
          /\ scorer.result.percent = 62

\* C21 amended: the same, and the sub-scores 0.65, 0.55, 0.5, 0.8 give the
\* weighted average 0.62 (0.195 + 0.165 + 0.1 + 0.16), bullish, "62%".
C21_WeightedSentimentAmended ==
    /\ WeightedLabels
    /\ (scorer.fn = "weighted_sentiment" /\ scorer.input = ExampleScores) =>
          /\ EqF(scorer.result.weighted, Frac(62, 100))
          /\ scorer.result.signal = "bullish"
          /\ scorer.result.percent = 62

C21_Witness ==
    /\ scorer.fn = "weighted_sentiment"
    /\ scorer.input = ExampleScores
    /\ scorer.result.weighted = Frac(31, 50)
    /\ scorer.result.percent = 62

\* the sub-scores whose inputs are present: momentum when the price history
\* reaches the window, volatility when VIX and its average are numbers other
\* than 0, volume when the average volume is positive, safe-haven demand
\* when there is a yield
PresentScores(i) ==
    LET with == calculate_fear_greed_index(
                    [i.prices EXCEPT !.rows = "full"],
                    [i.market_data EXCEPT
                       !.vix_50d_avg = IF @ = NaN THEN 0 ELSE @]).scores
    IN IF i.prices.rows = "full" THEN with ELSE Tail(with)

\* C22: calculate_fear_greed_index averages only the sub-scores whose inputs
\* are present, each within [0, 100]; a missing input, an empty or too short
\* price history included, is left out, neither counted as zero nor raising;
\* with no sub-score the index is 50.
C22_FearGreedOmitsMissing ==
    scorer.fn = "calculate_fear_greed_index" =>
        LET present == PresentScores(scorer.input)
            r == scorer.result
        IN /\ ~r.raised
           /\ r.scores = present
           /\ \A k \in DOMAIN present : present[k] \in 0..100
           /\ present = <<>> => r.value = Frac(50, 1)
           /\ present # <<>> =>
                EqF(r.value, Frac(SumOver(DOMAIN present, present), Len(present)))

\* C23: every result of analyze_options_sentiment and of
\* analyze_insider_sentiment, for every input, the empty, erroneous and
\* all-zero ones included, contains the sub-map metrics that sentiment_agent
\* reads put_call_ratio and buy_ratio from.
C23_ResultsHaveMetrics ==
    (/\ scorer.fn \in {"analyze_options_sentiment", "analyze_insider_sentiment"}
     /\ "metrics" \in DOMAIN scorer.result)
        => scorer.result.metrics

\* C28: analyze_insider_sentiment returns neutral with confidence 0.5 and
\* does not raise whenever the buy and sell totals add up to 0, for every
\* list of trades, with negative values or values that cancel out.
C28_ZeroTotalIsNeutral ==
    (/\ scorer.fn = "analyze_insider_sentiment"
     /\ SumValue(scorer.input, "BUY") + SumValue(scorer.input, "SELL") = 0)
        => /\ "raised" \notin DOMAIN scorer.result
           /\ scorer.result.signal = "neutral"
           /\ scorer.result.confidence = Frac(1, 2)

\* C24: the growth rates of get_financial_metrics are guarded against a
\* division by zero: when the previous revenue or net income is 0 the
\* denominator is 1, so the rate is the difference itself, and the
\* computation neither raises nor gives an infinite or undefined value.
C24_GrowthGuarded ==
    scorer.fn = "growth_rates" =>
        \A row \in {"Total Revenue", "Net Income"} :
            LET latest == get(scorer.input.latest, row, 0)
                prev == get(scorer.input.prev, row, 0)
                rate == IF row = "Total Revenue"
                        THEN scorer.result.revenue_growth
                        ELSE scorer.result.earnings_growth
            IN /\ rate.kind = "number"
               /\ prev = 0 => EqF(rate.value, Frac(latest, 1))

\* C25: between two consecutive attempts wrapper sleeps exactly once, for
\* backoff_in_seconds * 2^k seconds plus a jitter within [0, 1], k being
\* the number of failures so far minus 1; it sleeps neither before the first
\* attempt nor after the final failed one.
C25_OneSleepBetweenAttempts ==
    LET n == call.sleeps
    IN /\ call.state \in {"idle", "active"} => n = call.attempts
       /\ call.state = "returned" => n = call.attempts - 1
       /\ call.state = "raised" => n = call.attempts - 1
       /\ n > 0 =>
            call.wait - 10 * backoff_in_seconds * Pow2(n - 1) \in 0..10

C25_Witness ==
    /\ call.state = "raised"
    /\ call.attempts = retries + 1
    /\ call.sleeps = retries
    /\ call.wait = 10 * backoff_in_seconds * Pow2(retries - 1) + 10

\* C26: when every attempt fails the exception that leaves the call is the
\* one of the last attempt, and it is raised only when the attempts are used
\* up; no exception leaves the call otherwise.
C26_LastExceptionRaised ==
    /\ call.state = "raised" =>
          /\ call.attempts = retries + 1
          /\ call.exc = call.attempts
    /\ call.state # "raised" => call.exc = 0

C26_Witness ==
    /\ call.state = "raised"
    /\ call.kind = "market_data"
    /\ call.errors = retries + 1
    /\ call.exc = retries + 1

\* the fallback of each fetch of market_data_agent
ExpectedFallback(kind) ==
    CASE kind = "financial_metrics" -> List(<<"metrics_zero">>)
      [] kind = "financial_statements" -> List(<<"default_item", "default_item">>)
      [] kind = "market_data" -> Dict(<<"market_zero", "vix_0", "tnx_0">>)
      [] OTHER -> List(<<>>)

\* C29: market_data_agent never raises because of a fetch: whatever its
\* five fetches do, it returns a record whose data holds prices,
\* financial_metrics, financial_line_items, insider_trades, market_data and
\* market_cap, with the fallback in place of every fetch that failed or was
\* empty; financial_line_items has two items and financial_metrics one.
C29_MarketDataAgentNeverRaises ==
    /\ [](LET w == writes["market_data_agent"]
          IN /\ w.status # "raised"
             /\ w.status = "returned" =>
                  /\ {"prices", "financial_metrics", "financial_line_items",
                      "insider_trades", "market_data", "market_cap"}
                        \subseteq DOMAIN w.data
                  /\ Len(w.data["financial_line_items"].items) = 2
                  /\ Len(w.data["financial_metrics"].items) = 1
                  /\ w.data["prices"] = agent.fetched[1]
                  /\ w.data["financial_metrics"] = agent.fetched[2]
                  /\ w.data["financial_line_items"] = agent.fetched[3]
                  /\ w.data["insider_trades"] = agent.fetched[4]
                  /\ w.data["market_data"] = agent.fetched[5])
    /\ [][(/\ call.caller = "market_data_agent"
            /\ call.state \in {"returned", "raised"}
            /\ call' = Idle)
          => agent'.fetched =
               Append(agent.fetched,
                      IF call.state = "raised" \/ ~Truthy(call.value)
                      THEN ExpectedFallback(call.kind) ELSE call.value)]_vars

C29_Witness ==
    LET w == writes["market_data_agent"]
    IN /\ w.status = "returned"
       /\ w.data["prices"] = List(<<>>)
       /\ w.data["financial_line_items"] = List(<<"default_item", "default_item">>)
       /\ w.data["market_data"] = Dict(<<"market_zero", "vix_0", "tnx_0">>)
       /\ w.data["market_cap"] = "0"
       /\ w.data["insider_trades"] # List(<<>>)

\* C27: get_chat_completion never raises: whatever the requests do (network
\* error, HTTP error status, response without choices, valid response) it
\* returns the content of the first valid response, or None.
C27_ChatNeverRaises ==
    LET n == Len(chat.outcomes)
        valid == {k \in 1..n : chat.outcomes[k] = "valid"}
    IN /\ chat.pc # "raised"
       /\ chat.pc = "loop" => valid = {}
       /\ chat.pc = "returned" =>
            /\ valid \subseteq {n}
            /\ valid = {} => chat.result = "None"
            /\ valid # {} => chat.result \in {"content_a", "content_b"}

C27_Witness ==
    /\ chat.pc = "returned"
    /\ chat.outcomes = <<"network_error", "no_choices", "valid">>
    /\ chat.result = "content_b"

\* C30: one call of get_chat_completion issues at most max_retries requests,
\* sleeps initial_retry_delay * 2^attempt after each failed attempt but the
\* last, and the body is entered once, the decorator never entering it
\* again.
C30_ChatRetryBudget ==
    LET n == Len(chat.outcomes)
        slept == Len(chat.sleeps)
    IN /\ chat.requests <= chat.args.max_retries
       /\ chat.pc # "idle" => chat.entries = 1
       /\ (chat.pc = "loop" /\ n < chat.args.max_retries) => slept = n
       /\ (chat.pc = "loop" /\ n = chat.args.max_retries /\ n > 0) => slept = n - 1
       /\ (chat.pc = "returned" /\ n > 0) => slept = n - 1
       /\ \A k \in 1..slept :
            chat.sleeps[k] = chat.args.initial_retry_delay * Pow2(k - 1)

\* the record get_options_data returns from its except clause
\* (api.py lines 356-367): every number 0
DegradedOptions ==
    [shape |-> "record", put_call_ratio |-> 0, avg_put_iv |-> 0, avg_call_iv |-> 0]

\* C31: for the degraded fallback record of options data (put_call_ratio 0,
\* avg_call_iv 0, avg_put_iv 0) analyze_options_sentiment returns neutral
\* with confidence 0.5, as it does for missing or error-marked options data.
C31_DegradedOptionsNeutral ==
    (/\ scorer.fn = "analyze_options_sentiment"
     /\ scorer.input = DegradedOptions)
        => /\ scorer.result.signal = "neutral"
           /\ EqF(scorer.result.confidence, Frac(1, 2))

\* C32: in the weighted combination of sentiment_agent, the other three
\* sub-scores being the same, a bearish options or insider result in place
\* of a neutral one never increases the weighted sentiment, and a bullish
\* one never decreases it.
C32_BearishNeverRaisesScore ==
    (scorer.fn = "sentiment_signals" /\ "raised" \notin DOMAIN scorer.result) =>
        \A k \in {"options", "insider"} :
            LET r == scorer.result
                neutral == weighted_sentiment([r.scores EXCEPT ![k] = Frac(1, 2)])
            IN /\ r[k] = "bearish" => ~Lt(neutral, r.weighted)
               /\ r[k] = "bullish" => ~Lt(r.weighted, neutral)

\* a start-trading request is answered in this step with an error
StartTradingError ==
    /\ web'.now = web.now + 1
    /\ web'.answer.endpoint = "start-trading"
    /\ web'.answer.status # 200

\* C33: whenever POST /api/start-trading answers with an error (validation
\* failure, run failure, failure while post-processing the result),
\* current_trading_state is left as it was before the request: is_trading,
\* portfolio, last_update, agent_data and portfolio_history are unchanged.
C33_ErrorLeavesStateUnchanged ==
    [][StartTradingError =>
         web'.current_trading_state = web.current_trading_state]_vars

\* a start-trading request is answered in this step with success
StartTradingSuccess ==
    /\ web'.now = web.now + 1
    /\ web'.answer.endpoint = "start-trading"
    /\ web'.answer.status = 200

\* portfolio_history only grows, by one entry with a success and by none
\* otherwise, and is_trading stays True once it is
HistoryAppendOnly ==
    /\ SubSeq(web'.current_trading_state.portfolio_history, 1,
              Len(web.current_trading_state.portfolio_history))
         = web.current_trading_state.portfolio_history
    /\ Len(web'.current_trading_state.portfolio_history)
         = Len(web.current_trading_state.portfolio_history)
           + (IF StartTradingSuccess THEN 1 ELSE 0)
    /\ web.current_trading_state.is_trading
         => web'.current_trading_state.is_trading

\* /api/trading-status answers "active" exactly when a start-trading
\* request has answered with success
ActiveIffSuccess ==
    web.answer.endpoint = "trading-status" =>
        (web.answer.body = "active" <=> web.successes >= 1)

\* C34: across any sequence of web requests portfolio_history is
\* append-only and grows by exactly one entry per start-trading request
\* answered with success, and by none otherwise; is_trading never returns to
\* False; so /api/trading-status reports "active" if and only if at least one
\* start-trading request has answered with success.
C34_HistoryAndStatus ==
    /\ [][HistoryAppendOnly]_vars
    /\ []ActiveIffSuccess

\* the lines of the file that are not blank, without the white space
\* around them, in the order of the file
NonBlank(lines) ==
    LET RECURSIVE Rows(_)
        Rows(k) ==
            IF k > Len(lines) THEN <<>>
            ELSE IF lines[k] \in {"", "  "} THEN Rows(k + 1)
            ELSE <<IF lines[k] = " msft " THEN "msft" ELSE lines[k]>> \o Rows(k + 1)
    IN Rows(1)

\* C35: process_tickers_from_file gives exactly one row per non-blank line
\* of the file, in the order of the file, each with status 'success' or
\* 'error'; a failure of run_hedge_fund for a ticker is that ticker's 'error'
\* row and does not keep the remaining tickers from being processed; an
\* invalid date range is rejected once, before any ticker is processed.
C35_OneRowPerTicker ==
    /\ [](/\ batch.pc = "returned" =>
               /\ Len(batch.results) = Len(NonBlank(batch.file))
               /\ \A k \in DOMAIN batch.results :
                    /\ batch.results[k].ticker = NonBlank(batch.file)[k]
                    /\ batch.results[k].status \in {"success", "error"}
               /\ batch.runs = Len(batch.results)
          /\ batch.pc = "raised" => batch.runs = 0 /\ batch.results = <<>>
          /\ batch.pc \in {"loop", "returned"} =>
               LET d == default_dates(batch.args.start_date, batch.args.end_date)
               IN /\ d.start_date.ok /\ d.end_date.ok
                  /\ d.start_date.day <= d.end_date.day
                  /\ d.end_date.day <= Today
                  /\ d.end_date.day - d.start_date.day <= 365)
    /\ [][batch.pc = "loop" =>
            /\ batch'.pc \in {"loop", "returned"}
            /\ batch'.pc = "returned" => Len(batch.results) = Len(batch.tickers)]_vars

C35_Witness ==
    /\ batch.pc = "returned"
    /\ batch.file = <<" msft ", "AAPL">>
    /\ batch.results[1].status = "error"
    /\ batch.results[2].status = "success"
    /\ batch.results[2].ticker = "AAPL"

\* data after market_data_agent, which was handed the data in
AfterMarketData(in, data) ==
    /\ data["start_date"].day <= data["end_date"].day - 365
    /\ data["start_date"] =
         (IF in["start_date"].day < in["end_date"].day - 365
          THEN in["start_date"] ELSE Date(in["end_date"].day - 365))
    /\ data["end_date"] = data["current_date"]
    /\ \A k \in {"ticker", "portfolio", "num_of_news"} : data[k] = in[k]

\* C36: after market_data_agent the start_date of the record is never
\* later than 365 days before its end_date (it is the earlier of the
\* requested start date and the end date minus 365 days), end_date and
\* current_date are equal, and the other input keys of data (ticker,
\* portfolio, num_of_news) are carried over unchanged.
C36_DatesAfterMarketData ==
    /\ writes["market_data_agent"].status = "returned" =>
          AfterMarketData(snapshot["market_data_agent"].data,
                          writes["market_data_agent"].data)
    /\ "market_data_agent" \in merged =>
          AfterMarketData(workflow_input(run.config).data, record.data)

C36_Witness ==
    /\ "market_data_agent" \in merged
    /\ run.config.start_date = Date(Today)
    /\ record.data["start_date"] = Date(Today - 365)
    /\ record.data["current_date"] = Date(Today)
    /\ record.data["ticker"] = "AAPL"

====
